---------------------------- MODULE Spec2Model ----------------------------
(***************************************************************************)
(* Model of the LLM inference fallback of the OpsVoice backend:            *)
(*   routers/chat.py and services/debate_orchestrator.py  _infer           *)
(*   services/bedrock.py       BedrockService.invoke and its three chains  *)
(*   services/minimax_chat.py  MiniMaxChat.invoke                          *)
(*                                                                         *)
(* One _infer call is a process; every step of it is one candidate attempt *)
(* (one network call) together with all the control flow that follows it   *)
(* up to the next network call or the end of the call.                     *)
(*                                                                         *)
(* Python strings are TLA+ strings; slicing s[:n], concatenation, the      *)
(* `in` substring test and str.lower() are computed on them.               *)
(*                                                                         *)
(* The second half of the module models the handlers around it:            *)
(*   services/minimax_tts.py   MiniMaxTTS.synthesize, synthesize_stream    *)
(*   routers/tts.py            /api/tts, /api/tts/stream                   *)
(*   routers/debate.py         /api/debate/start, /{session_id}/turn       *)
(*   routers/chat.py           /api/chat                                   *)
(*   the lazy accessors _get_bedrock, _get_minimax, _get_tts               *)
(* Each has its own specification; the variables of the others keep their  *)
(* initial values in it.                                                   *)
(***************************************************************************)
EXTENDS Naturals, Sequences, FiniteSets, TLC

VARIABLES
  settings,      \* the Settings object (config.py): the secrets
  caller,        \* which _infer runs: "chat" or "debate"
  messages,      \* the message list the caller passes to _infer
  scenario,      \* the provider environment: a focus or a scripted scenario
  pos,           \* position of the call: [stage, idx] = the next network call
  last_err,      \* the running chain's local last_err / last_error
  errors,        \* BedrockService.invoke's local list `errors`
  infer_errors,  \* _infer's local list `errors`
  result,        \* the dict _infer returned (NoResult before)
  invoke_exit,   \* how BedrockService.invoke ended: NotExited, Return or Raise
  minimax_exit,  \* how MiniMaxChat.invoke ended: NotExited, Return or Raise
  raised,        \* the exception _infer raised (NoException before)
  calls,         \* the network calls issued so far, in order: [stage, idx]
  requests,      \* what each of these calls sent, in the same order
  threads,       \* two calls running at once: the locals of each of them
  solo,          \* each of the two calls run alone on the answers it got
  lastResp,      \* the provider's answer to the last network call
  tts,           \* routers/tts.py: the requests served so far
  sse,           \* one run of MiniMaxTTS.synthesize_stream
  debate,        \* routers/debate.py: the stored rows and the running streams
  chatdb,        \* routers/chat.py: the stored rows and the requests served
  lazy           \* the module globals _bedrock, _minimax, _tts and their callers

\* the state of the inference calls
inference ==
  <<settings, caller, messages, scenario, pos, last_err, errors, infer_errors,
    result, invoke_exit, minimax_exit, raised, calls, requests, threads, solo,
    lastResp>>

\* the state of the routers and of the TTS service
routers == <<tts, sse, debate, chatdb, lazy>>

vars == <<settings, caller, messages, scenario, pos, last_err, errors,
          infer_errors, result, invoke_exit, minimax_exit, raised, calls,
          requests, threads, solo, lastResp, tts, sse, debate, chatdb, lazy>>

-----------------------------------------------------------------------------
(* Python string operations *)

Min(a, b) == IF a < b THEN a ELSE b

\* s[:n]
Prefix(s, n) == SubSeq(s, 1, Min(n, Len(s)))

\* w in s
Contains(s, w) ==
  \E i \in 1..(Len(s) + 1) : i + Len(w) <= Len(s) + 1 /\ SubSeq(s, i, i + Len(w) - 1) = w

UpperToLower ==
  "A" :> "a" @@ "B" :> "b" @@ "C" :> "c" @@ "D" :> "d" @@ "E" :> "e" @@
  "F" :> "f" @@ "G" :> "g" @@ "H" :> "h" @@ "I" :> "i" @@ "J" :> "j" @@
  "K" :> "k" @@ "L" :> "l" @@ "M" :> "m" @@ "N" :> "n" @@ "O" :> "o" @@
  "P" :> "p" @@ "Q" :> "q" @@ "R" :> "r" @@ "S" :> "s" @@ "T" :> "t" @@
  "U" :> "u" @@ "V" :> "v" @@ "W" :> "w" @@ "X" :> "x" @@ "Y" :> "y" @@
  "Z" :> "z"

LowerChar(c) == IF c \in DOMAIN UpperToLower THEN UpperToLower[c] ELSE c

RECURSIVE Lower(_)
\* s.lower()
Lower(s) ==
  IF Len(s) <= 1 THEN LowerChar(s)
  ELSE Lower(SubSeq(s, 1, Len(s) \div 2)) \o Lower(SubSeq(s, Len(s) \div 2 + 1, Len(s)))

RECURSIVE Join(_, _)
\* sep.join(list)
Join(sep, list) ==
  IF Len(list) = 0 THEN ""
  ELSE IF Len(list) = 1 THEN list[1]
  ELSE list[1] \o sep \o Join(sep, Tail(list))

\* list[:n]
FirstN(list, n) == SubSeq(list, 1, Min(n, Len(list)))

\* bool(s) of a Python str
Truthy(s) == s # ""

-----------------------------------------------------------------------------
(* Exceptions and function outcomes *)

RuntimeError(msg) == [type |-> "RuntimeError", msg |-> msg]
\* an exception that is not a RuntimeError (httpx.TransportError,
\* botocore ClientError, anthropic.APIError, ...)
OtherError(msg) == [type |-> "Exception", msg |-> msg]
NoException == [type |-> "none", msg |-> ""]

NoResult == [content |-> "", model |-> "", input_tokens |-> 0,
             output_tokens |-> 0, stop_reason |-> "", none |-> TRUE]

Return(r) == [tag |-> "return", value |-> r, exc |-> NoException]
Raise(e) == [tag |-> "raise", value |-> NoResult, exc |-> e]
NotExited == [tag |-> "running", value |-> NoResult, exc |-> NoException]

-----------------------------------------------------------------------------
(* services/bedrock.py: constants *)

HACKATHON_PROFILE_ARN ==
  "arn:aws:bedrock:us-west-2:283845804869:inference-profile/global.anthropic.claude-sonnet-4-20250514-v1:0"
HACKATHON_PROFILE_ID == "global.anthropic.claude-sonnet-4-20250514-v1:0"
MODEL_SONNET_46 == "us.anthropic.claude-sonnet-4-6"
MODEL_HAIKU_35 == "us.anthropic.claude-3-5-haiku-20241022-v1:0"
MODEL_HAIKU_3 == "anthropic.claude-3-haiku-20240307-v1:0"

Cand(region, model_id) == [region |-> region, model_id |-> model_id]

ABSK_FALLBACK_CHAIN ==
  << Cand("us-west-2", MODEL_SONNET_46),
     Cand("us-east-1", MODEL_SONNET_46),
     Cand("us-west-2", MODEL_HAIKU_35),
     Cand("us-east-1", MODEL_HAIKU_35),
     Cand("us-east-1", MODEL_HAIKU_3) >>

BEARER_FALLBACK_CHAIN ==
  << Cand("us-west-2", HACKATHON_PROFILE_ID),
     Cand("us-west-2", "us.anthropic.claude-sonnet-4-20250514-v1:0"),
     Cand("us-west-2", MODEL_HAIKU_35) >>

\* the local list `attempts` of _invoke_boto3_hackathon
BOTO3_ATTEMPTS ==
  << Cand("us-west-2", HACKATHON_PROFILE_ARN),
     Cand("us-west-2", HACKATHON_PROFILE_ID),
     Cand("us-west-2", "us.anthropic.claude-sonnet-4-20250514-v1:0") >>

(* services/minimax_chat.py: constants *)
MODEL_CHAIN == << "MiniMax-M2.5-highspeed", "MiniMax-M2.5", "MiniMax-M2.1-highspeed" >>

-----------------------------------------------------------------------------
(* JSON objects are records; a missing key is a missing field *)

\* dict.get(key, default)
Get(obj, key, default) == IF key \in DOMAIN obj THEN obj[key] ELSE default

EmptyObj == [k \in {} |-> 0]

IsTextBlock(b) == Get(b, "type", "") = "text"

RECURSIVE TextParts(_)
\* [b["text"] for b in content_blocks if b.get("type") == "text"]
TextParts(blocks) ==
  IF Len(blocks) = 0 THEN << >>
  ELSE (IF IsTextBlock(Head(blocks)) THEN << Head(blocks)["text"] >> ELSE << >>)
       \o TextParts(Tail(blocks))

\* mutant: the token counts are copied from `usage` when it has them
parse_response_copies_usage(data) ==
  LET content_blocks == Get(data, "content", << >>)
      text_parts == TextParts(content_blocks)
      usage == Get(data, "usage", EmptyObj)
  IN [ k \in {"input_tokens", "output_tokens"} \cap DOMAIN usage |-> usage[k] ]
     @@ [ content |-> IF Len(text_parts) > 0 THEN Join("\n", text_parts) ELSE "",
          model |-> Get(data, "model", MODEL_SONNET_46),
          stop_reason |-> Get(data, "stop_reason", "") ]

\* BedrockService._parse_response
parse_response(data) ==
  LET content_blocks == Get(data, "content", << >>)
      text_parts == TextParts(content_blocks)
      usage == Get(data, "usage", EmptyObj)
  IN [ content |-> IF Len(text_parts) > 0 THEN Join("\n", text_parts) ELSE "",
       model |-> Get(data, "model", MODEL_SONNET_46),
       input_tokens |-> Get(usage, "input_tokens", 0),
       output_tokens |-> Get(usage, "output_tokens", 0),
       stop_reason |-> Get(data, "stop_reason", "") ]

\* mutant: only server errors count as failures
IsHttpFailureServerOnly(resp) == resp.status >= 500

\* resp.status_code != 200 (bedrock.py line 265)
IsHttpFailure(resp) == resp.status # 200

\* the message of the RuntimeError of line 266
HttpErrorText(resp, label) ==
  ToString(resp.status) \o " [" \o label \o "]: " \o Prefix(resp.text, 200)

\* BedrockService._http_invoke; status 0 stands for client.post raising
\* (no HTTP answer: connect error, timeout), which is not a RuntimeError
http_invoke(label, resp) ==
  IF resp.status = 0 THEN Raise(OtherError(resp.text))
  ELSE IF IsHttpFailure(resp) THEN Raise(RuntimeError(HttpErrorText(resp, label)))
  ELSE Return(parse_response(resp.data))

-----------------------------------------------------------------------------
(* The request of a candidate attempt *)

\* Python's None, where a str is expected
None == "<None>"

\* x or d
OrDefault(x, d) == IF x = None \/ x = "" THEN d ELSE x

MAX_TOKENS == 2048

SYSTEM_PROMPT ==
  "You are OpsVoice, a versatile AI assistant powered by Claude. "
  \o "You can help with anything: coding, writing, brainstorming, analysis, storytelling, "
  \o "infrastructure ops, debugging, creative projects, and more. "
  \o "Keep responses clear and natural - they will be spoken aloud via text-to-speech. "
  \o "Use conversational language, vary your sentence length, and be engaging. "
  \o "Be helpful, knowledgeable, and adaptive to whatever the user needs."

MINIMAX_MAX_TOKENS == 2048

MINIMAX_SYSTEM_PROMPT ==
  "You are OpsVoice, an expert AI assistant for cloud infrastructure operations. "
  \o "You help engineers monitor, diagnose, and resolve infrastructure issues. "
  \o "Keep responses concise and actionable - they may be spoken aloud via text-to-speech. "
  \o "Speak like a senior SRE briefing their team."

Message(role, content) == [role |-> role, content |-> content]

RECURSIVE SplitSystem(_, _)
\* debate_orchestrator._infer lines 43-49: the loop over `messages`, acc
\* being the locals `system` and `user_messages`
SplitSystem(msgs, acc) ==
  IF msgs = << >> THEN acc
  ELSE LET m == Head(msgs)
       IN SplitSystem(Tail(msgs),
            IF m.role = "system"
            THEN [acc EXCEPT !.system = m.content]
            ELSE [acc EXCEPT !.user_messages = Append(@, m)])

\* the arguments _infer passes to BedrockService.invoke / MiniMaxChat.invoke:
\* debate_orchestrator passes (user_messages, system=system), routers/chat
\* passes (messages) and leaves `system` at its default None
InferArgs(who, msgs) ==
  IF who = "debate"
  THEN SplitSystem(msgs, [system |-> None, user_messages |-> << >>])
  ELSE [system |-> None, user_messages |-> msgs]

\* BedrockService._build_body
build_body(msgs, system) ==
  [ anthropic_version |-> "bedrock-2023-05-31",
    max_tokens |-> MAX_TOKENS,
    system |-> OrDefault(system, SYSTEM_PROMPT),
    messages |-> msgs ]

\* _bedrock_url
bedrock_url(region, model_id) ==
  "https://bedrock-runtime." \o region \o ".amazonaws.com/model/" \o model_id \o "/invoke"

\* MiniMaxChat.invoke lines 77-82: anthropic_messages
anthropic_messages(msgs) ==
  [ i \in 1..Len(msgs) |->
      [ role |-> msgs[i].role,
        content |-> << [type |-> "text", text |-> msgs[i].content] >> ] ]

\* the chain of a stage
ChainOf(stage) ==
  CASE stage = "bearer" -> BEARER_FALLBACK_CHAIN
    [] stage = "boto3" -> BOTO3_ATTEMPTS
    [] stage = "absk" -> ABSK_FALLBACK_CHAIN

\* the credential a stage sends
CredentialOf(cfg, stage) ==
  CASE stage = "bearer" -> << cfg.aws_bearer_token_bedrock >>
    [] stage = "boto3" -> << cfg.aws_access_key_id, cfg.aws_secret_access_key >>
    [] stage = "absk" -> << cfg.aws_bedrock_api_key_backup >>
    [] stage = "minimax" -> << cfg.minimax_api_key >>

\* what the network call at position p sends: client.post(url, json=body,
\* headers) in _http_invoke, client.invoke_model(modelId, body) in
\* _invoke_boto3_hackathon, client.messages.create(model, max_tokens, system,
\* messages) in MiniMaxChat.invoke
RequestAt(cfg, who, msgs, p) ==
  LET args == InferArgs(who, msgs)
  IN IF p.stage = "minimax"
     THEN [ target |-> MODEL_CHAIN[p.idx],
            credential |-> CredentialOf(cfg, p.stage),
            body |-> [ max_tokens |-> MINIMAX_MAX_TOKENS,
                       system |-> OrDefault(args.system, MINIMAX_SYSTEM_PROMPT),
                       messages |-> anthropic_messages(args.user_messages) ] ]
     ELSE [ target |-> IF p.stage = "boto3" THEN ChainOf(p.stage)[p.idx].model_id
                       ELSE bedrock_url(ChainOf(p.stage)[p.idx].region,
                                        ChainOf(p.stage)[p.idx].model_id),
            credential |-> CredentialOf(cfg, p.stage),
            body |-> build_body(args.user_messages, args.system) ]

-----------------------------------------------------------------------------
(* _infer (routers/chat.py, services/debate_orchestrator.py) *)

At(stage, idx) == [stage |-> stage, idx |-> idx]

\* str(e)[:80] in chat.py, str(e)[:60] in debate_orchestrator.py
InferCut(who) == IF who = "chat" THEN 80 ELSE 60

InferHeader(who) ==
  IF who = "chat"
  THEN "All LLM providers failed. Ensure AWS Bedrock model access is enabled "
       \o "OR MiniMax API key is configured. Details: "
  ELSE "All LLM providers failed for debate generation. Details: "

\* has_aws of _infer
has_aws ==
  \/ Truthy(settings.aws_bearer_token_bedrock)
  \/ (Truthy(settings.aws_access_key_id) /\ Truthy(settings.aws_secret_access_key))
  \/ Truthy(settings.aws_bedrock_api_key_backup)

\* MiniMaxChat.is_available
is_available == Truthy(settings.minimax_api_key)

\* the final raise of _infer
InferRaise(s) ==
  [s EXCEPT !.pos = At("raised", 0),
            !.raised = RuntimeError(InferHeader(caller) \o Join("; ", s.infer_errors))]

\* _infer, step 2: MiniMax only when its key is configured
InferMiniMax(s) ==
  IF is_available
  THEN [s EXCEPT !.pos = At("minimax", 1),
                 !.last_err = RuntimeError("No models tried")]
  ELSE InferRaise(s)

\* mutant: the provider's result is kept but not returned, _infer goes on
InferReturnFallsThrough(s, r) == InferMiniMax([s EXCEPT !.result = r])

\* _infer: `return _get_bedrock().invoke(...)` / `return mm.invoke(...)`
InferReturn(s, r) == [s EXCEPT !.pos = At("returned", 0), !.result = r]

\* MiniMaxChat.invoke returns its result to _infer
MiniMaxReturn(s, r) == InferReturn([s EXCEPT !.minimax_exit = Return(r)], r)

\* _infer: `except Exception as e` around BedrockService.invoke
InferBedrockFailed(s, e) ==
  InferMiniMax([s EXCEPT !.invoke_exit = Raise(e),
                         !.infer_errors = Append(@, "bedrock: " \o Prefix(e.msg, InferCut(caller)))])

\* _infer: `except Exception as e` around MiniMaxChat.invoke
InferMiniMaxFailed(s, e) ==
  InferRaise([s EXCEPT !.minimax_exit = Raise(e),
                       !.infer_errors = Append(@, "minimax: " \o Prefix(e.msg, InferCut(caller)))])

-----------------------------------------------------------------------------
(* BedrockService.invoke *)

AggregateHeader ==
  "All Bedrock methods failed. "
  \o "Hackathon: WSParticipantRole needs bedrock:InvokeModel (ask AWS booth). "
  \o "Personal ABSK: ensure model access is enabled for account 655366068864. "
  \o "Details: "

\* the final raise of invoke: the first three entries of `errors`
AggregateError(errs) == RuntimeError(AggregateHeader \o Join("; ", FirstN(errs, 3)))

\* mutant: the working ABSK key is tried first
DescriptorOrderAbskFirst == << "absk", "bearer", "boto3" >>

\* the descriptors in the order invoke tries them
DescriptorOrder == << "bearer", "boto3", "absk" >>

DescriptorRank(stage) == CHOOSE k \in 1..3 : DescriptorOrder[k] = stage

\* the prefix invoke gives a descriptor's entry of `errors`
ErrorLabel(stage) ==
  CASE stage = "bearer" -> "bearer: "
    [] stage = "boto3" -> "boto3_event: "
    [] stage = "absk" -> "absk: "

\* mutant: the IAM block is guarded by the access key alone
SecretPresentAccessKeyOnly(stage) ==
  CASE stage = "bearer" -> Truthy(settings.aws_bearer_token_bedrock)
    [] stage = "boto3" -> Truthy(settings.aws_access_key_id)
    [] stage = "absk" -> Truthy(settings.aws_bedrock_api_key_backup)

\* the `if` guarding each descriptor's block in invoke
SecretPresent(stage) ==
  CASE stage = "bearer" -> Truthy(settings.aws_bearer_token_bedrock)
    [] stage = "boto3" -> Truthy(settings.aws_access_key_id)
                          /\ Truthy(settings.aws_secret_access_key)
    [] stage = "absk" -> Truthy(settings.aws_bedrock_api_key_backup)

\* the initial value of a chain's last_err
EmptyChainError(stage) ==
  CASE stage = "bearer" -> RuntimeError("empty bearer chain")
    [] stage = "boto3" -> RuntimeError("boto3 hackathon: empty chain")
    [] stage = "absk" -> RuntimeError("empty ABSK chain")

\* invoke returns a chain's result
InvokeReturn(s, r) == InferReturn([s EXCEPT !.invoke_exit = Return(r)], r)

RECURSIVE InvokeFrom(_, _)
\* invoke from its k-th descriptor block on: enter the first block whose
\* secret is present, raise the aggregate error when none is left
InvokeFrom(s, k) ==
  IF k > Len(DescriptorOrder) THEN InferBedrockFailed(s, AggregateError(s.errors))
  ELSE IF SecretPresent(DescriptorOrder[k])
       THEN [s EXCEPT !.pos = At(DescriptorOrder[k], 1),
                      !.last_err = EmptyChainError(DescriptorOrder[k])]
       ELSE InvokeFrom(s, k + 1)

\* which exceptions a descriptor's `except` clause in invoke catches:
\* RuntimeError for the bearer and ABSK blocks, Exception for the boto3 block
InvokeCatches(stage, e) == stage = "boto3" \/ e.type = "RuntimeError"

\* a chain raised e: invoke records it and goes on, or e leaves invoke
ChainRaised(s, stage, e) ==
  IF InvokeCatches(stage, e)
  THEN InvokeFrom([s EXCEPT !.errors = Append(@, ErrorLabel(stage) \o e.msg)],
                  DescriptorRank(stage) + 1)
  ELSE InferBedrockFailed(s, e)

-----------------------------------------------------------------------------
(* The three Bedrock chains.  Each operator is one pass of the chain's loop *)
(* for candidate j answered by resp, with what follows it in invoke.        *)

\* _invoke_bearer_chain lines 175 and 178: the two `break` conditions
BearerBreak(err_str) ==
  \/ Contains(Lower(err_str), "not authorized") /\ Contains(err_str, "WSParticipantRole")
  \/ Contains(err_str, "403")
     /\ (Contains(err_str, "AccessDenied") \/ Contains(err_str, "Forbidden"))

\* mutant: both markers are required
Boto3BlockBoth(err_str) ==
  Contains(Lower(err_str), "not authorized") /\ Contains(err_str, "AccessDenied")

\* _invoke_boto3_hackathon line 216: the fast-fail condition
Boto3Block(err_str) ==
  Contains(Lower(err_str), "not authorized") \/ Contains(err_str, "AccessDenied")

\* _invoke_absk_chain line 242: the `break` condition
AbskBreak(err_str) ==
  LET lowered == Lower(err_str)
  IN Contains(lowered, "authentication failed") /\ ~Contains(lowered, "bedrock-api-key")

\* _invoke_bearer_chain
invoke_bearer_chain(s, j, resp) ==
  LET region == BEARER_FALLBACK_CHAIN[j].region
      out == http_invoke("bearer_hackathon/" \o region, resp)
  IN IF out.tag = "return" THEN InvokeReturn(s, out.value)
     ELSE IF out.exc.type # "RuntimeError" THEN ChainRaised(s, "bearer", out.exc)
     ELSE IF BearerBreak(out.exc.msg) \/ j = Len(BEARER_FALLBACK_CHAIN)
          THEN ChainRaised(s, "bearer", out.exc)
          ELSE [s EXCEPT !.pos = At("bearer", j + 1), !.last_err = out.exc]

\* _invoke_boto3_hackathon; client.invoke_model returns only on HTTP 200 and
\* raises otherwise, resp.text being str(e) of what it raises
invoke_boto3_hackathon(s, j, resp) ==
  IF resp.status = 200 THEN InvokeReturn(s, parse_response(resp.data))
  ELSE LET err_str == resp.text
       IN IF Boto3Block(err_str)
          THEN ChainRaised(s, "boto3",
                 RuntimeError("boto3 hackathon IAM block: " \o Prefix(err_str, 200)))
          ELSE IF j = Len(BOTO3_ATTEMPTS)
               THEN ChainRaised(s, "boto3", OtherError(err_str))
               ELSE [s EXCEPT !.pos = At("boto3", j + 1),
                              !.last_err = OtherError(err_str)]

\* _invoke_absk_chain
invoke_absk_chain(s, j, resp) ==
  LET region == ABSK_FALLBACK_CHAIN[j].region
      out == http_invoke("absk_personal/" \o region, resp)
  IN IF out.tag = "return" THEN InvokeReturn(s, out.value)
     ELSE IF out.exc.type # "RuntimeError" THEN ChainRaised(s, "absk", out.exc)
     ELSE IF AbskBreak(out.exc.msg) \/ j = Len(ABSK_FALLBACK_CHAIN)
          THEN ChainRaised(s, "absk", out.exc)
          ELSE [s EXCEPT !.pos = At("absk", j + 1), !.last_err = out.exc]

-----------------------------------------------------------------------------
(* MiniMaxChat.invoke *)

RECURSIVE BlockTexts(_)
\* content += block.text for every block that has a `text` attribute
BlockTexts(blocks) ==
  IF Len(blocks) = 0 THEN ""
  ELSE (IF "text" \in DOMAIN Head(blocks) THEN Head(blocks)["text"] ELSE "")
       \o BlockTexts(Tail(blocks))

\* the result dict MiniMaxChat.invoke builds of the SDK's response
MiniMaxResult(model, data) ==
  LET usage == Get(data, "usage", EmptyObj)
  IN [ content |-> BlockTexts(Get(data, "content", << >>)),
       model |-> "minimax/" \o model,
       input_tokens |-> Get(usage, "input_tokens", 0),
       output_tokens |-> Get(usage, "output_tokens", 0),
       stop_reason |-> Get(data, "stop_reason", "end_turn") ]

\* mutant: every failure tries the next model
MiniMaxContinueAlways(err) == Len(err) >= 0

\* minimax_chat.py line 121: the `continue` condition
MiniMaxContinue(err) ==
  Contains(Lower(err), "model_not_found") \/ Contains(err, "404")

\* one pass of the loop over MODEL_CHAIN; client.messages.create returns on
\* HTTP 200 and raises otherwise, resp.text being str(e) of what it raises
minimax_invoke(s, j, resp) ==
  IF resp.status = 200 THEN MiniMaxReturn(s, MiniMaxResult(MODEL_CHAIN[j], resp.data))
  ELSE LET err == resp.text
       IN IF MiniMaxContinue(err)
          THEN IF j = Len(MODEL_CHAIN)
               THEN InferMiniMaxFailed(s,
                      RuntimeError("All MiniMax models failed: " \o err))
               ELSE [s EXCEPT !.pos = At("minimax", j + 1),
                              !.last_err = OtherError(err)]
          ELSE InferMiniMaxFailed(s,
                 RuntimeError("MiniMax error (" \o MODEL_CHAIN[j] \o "): "
                              \o Prefix(err, 150)))

-----------------------------------------------------------------------------
(* The providers: what a network call can be answered with.  An answer is   *)
(* [status, text, data]: the HTTP status (0: no HTTP answer, the call ran   *)
(* into a connect error or a timeout), the body text of a failure (for the  *)
(* boto3 and Anthropic SDK clients: str(e) of the exception the client      *)
(* raises for it) and the JSON object of a success.                         *)

Answer(status, text, data) == [status |-> status, text |-> text, data |-> data]
Failure(status, text) == Answer(status, text, EmptyObj)

DataOK ==
  [ content |-> << [type |-> "text", text |-> "OK"] >>,
    model |-> "claude-sonnet-4-20250514",
    usage |-> [input_tokens |-> 12, output_tokens |-> 3],
    stop_reason |-> "end_turn" ]

\* a success without `usage`, `model` and `stop_reason`, with a non-text block
DataBare ==
  [ content |-> << [type |-> "tool_use", id |-> "t1"],
                   [type |-> "text", text |-> "Hello"],
                   [type |-> "text", text |-> "world"] >> ]

TextRoleBlocked ==
  "User: arn:aws:sts::283845804869:assumed-role/WSParticipantRole/Participant "
  \o "is not authorized to perform: bedrock:InvokeModel"
TextAccessDenied == "AccessDenied, role lacks permission"
TextBadToken == "The security token included in the request is invalid."
TextAuthFailed == "Authentication failed: Please make sure your API Key is valid."
TextNotFound == "model not found"
TextThrottled == "Too many requests, please wait before trying again."
TextGateway == "upstream gateway error: origin replied 403 Forbidden"

\* str(e) of a botocore ClientError
ClientErrorText(code, message) ==
  "An error occurred (" \o code \o ") when calling the InvokeModel operation: "
  \o message

\* str(e) of an anthropic.APIStatusError
ApiStatusErrorText(status, kind, message) ==
  "Error code: " \o ToString(status) \o " - {'type': 'error', 'error': {'type': '"
  \o kind \o "', 'message': '" \o message \o "'}}"

HttpAnswers ==
  { Answer(200, "", DataOK), Answer(200, "", DataBare),
    Failure(204, ""),
    Failure(401, TextBadToken),
    Failure(403, TextRoleBlocked),
    Failure(403, TextAccessDenied),
    Failure(403, TextAuthFailed),
    Failure(404, TextNotFound),
    Failure(429, TextThrottled),
    Failure(500, TextGateway),
    Failure(0, "timed out") }

Boto3Answers ==
  { Answer(200, "", DataOK), Answer(200, "", DataBare),
    Failure(401, ClientErrorText("UnrecognizedClientException", TextBadToken)),
    Failure(403, ClientErrorText("AccessDeniedException", TextAccessDenied)),
    Failure(404, ClientErrorText("ResourceNotFoundException", TextNotFound)),
    Failure(429, ClientErrorText("ThrottlingException", TextThrottled)),
    Failure(500, ClientErrorText("InternalServerException", TextGateway)),
    Failure(0, "Could not connect to the endpoint URL") }

MiniMaxAnswers ==
  { Answer(200, "", DataOK), Answer(200, "", DataBare),
    Failure(401, ApiStatusErrorText(401, "authentication_error", "invalid api key")),
    Failure(401, ApiStatusErrorText(401, "authentication_error",
                                    "invalid api key (request 7404a1)")),
    Failure(404, ApiStatusErrorText(404, "not_found_error", TextNotFound)),
    Failure(429, ApiStatusErrorText(429, "rate_limit_error", TextThrottled)),
    Failure(500, ApiStatusErrorText(500, "api_error", "internal server error")),
    Failure(0, "Request timed out.") }

\* the answers that decide a chain's control flow, one of each kind:
\* success, try the next candidate, leave the chain
BasicAnswers(stage) ==
  CASE stage = "bearer" ->
         { Answer(200, "", DataOK), Failure(404, TextNotFound),
           Failure(403, TextAccessDenied) }
    [] stage = "absk" ->
         { Answer(200, "", DataOK), Failure(404, TextNotFound),
           Failure(403, TextAuthFailed) }
    [] stage = "boto3" ->
         { Answer(200, "", DataOK),
           Failure(404, ClientErrorText("ResourceNotFoundException", TextNotFound)),
           Failure(403, ClientErrorText("AccessDeniedException", TextAccessDenied)) }
    [] stage = "minimax" ->
         { Answer(200, "", DataOK),
           Failure(404, ApiStatusErrorText(404, "not_found_error", TextNotFound)),
           Failure(429, ApiStatusErrorText(429, "rate_limit_error", TextThrottled)) }

\* Scenario T, two calls at once: a candidate answers 200 or 404, a bearer
\* candidate also 403 AccessDenied
TwoCallAnswers(stage) ==
  { a \in BasicAnswers(stage) : a.status \in { 200, 404 } \/ stage = "bearer" }

AllAnswers(stage) ==
  CASE stage = "boto3" -> Boto3Answers
    [] stage = "minimax" -> MiniMaxAnswers
    [] OTHER -> HttpAnswers

Focuses == { "bearer", "boto3", "absk", "minimax" }

\* Success bodies of every shape the provider contract allows:
\* {content: [{type, text} ...], model, usage: {input_tokens, output_tokens},
\* stop_reason}, any field of which may be missing
MaxBlocks == 2

Blocks ==
  { [type |-> "text", text |-> "alpha"],
    [type |-> "text", text |-> "beta"],
    [type |-> "tool_use", id |-> "t1"] }

BlockLists == UNION { [1..n -> Blocks] : n \in 0..MaxBlocks }

Usages ==
  { [input_tokens |-> 12, output_tokens |-> 3],
    [input_tokens |-> 7],
    EmptyObj }

\* the object f without its field k
Without(f, k) == [ x \in DOMAIN f \ {k} |-> f[x] ]

SuccessBodies ==
  LET full == { [ content |-> c, usage |-> u, model |-> "claude-sonnet-4-20250514",
                  stop_reason |-> "end_turn" ] : c \in BlockLists, u \in Usages }
      noUsage == { Without(d, "usage") : d \in full }
      noModel == { Without(d, "model") : d \in full \cup noUsage }
  IN full \cup noUsage \cup noModel
     \cup { Without(Without(d, "content"), "stop_reason") : d \in noModel }

\* Scenario P is about the parsing of a success: a candidate answers 200
\* with any of the success bodies, or 404
ParseAnswers(stage) ==
  { Answer(200, "", d) : d \in SuccessBodies }
  \cup { CASE stage = "boto3" ->
               Failure(404, ClientErrorText("ResourceNotFoundException", TextNotFound))
            [] stage = "minimax" ->
               Failure(404, ApiStatusErrorText(404, "not_found_error", TextNotFound))
            [] OTHER -> Failure(404, TextNotFound) }

RECURSIVE Repeat(_, _)
Repeat(s, n) == IF n = 0 THEN "" ELSE s \o Repeat(s, n - 1)

\* an error body longer than every truncation of the code (150, 200): a
\* message followed by a stack trace
LongText(message) ==
  message \o "; Traceback (most recent call last): "
  \o Repeat("File \"/srv/gateway/handler.py\", in dispatch; ", 6)

\* Scenario L is about long error bodies: a candidate answers 200, or fails
\* with a long body of each kind the chain's control flow distinguishes
LongAnswers(stage) ==
  CASE stage = "boto3" ->
         { Answer(200, "", DataOK),
           Failure(404, ClientErrorText("ResourceNotFoundException", LongText(TextNotFound))),
           Failure(403, ClientErrorText("AccessDeniedException", LongText(TextAccessDenied))) }
    [] stage = "minimax" ->
         { Answer(200, "", DataOK),
           Failure(404, ApiStatusErrorText(404, "not_found_error", LongText(TextNotFound))),
           Failure(429, ApiStatusErrorText(429, "rate_limit_error", LongText(TextThrottled))) }
    [] OTHER ->
         { Answer(200, "", DataOK),
           Failure(404, LongText(TextNotFound)),
           Failure(403, LongText(TextAccessDenied)) }

\* The environment named by `scenario` is a scripted scenario (A, B, C) or a
\* focus: the focused chain is answered with any of AllAnswers, the other
\* chains with any of BasicAnswers.  No chain reads another chain's answers,
\* so the focuses together cover every control path of every chain.
AnswersOf(stage) ==
  IF scenario = "P" THEN ParseAnswers(stage)
  ELSE IF scenario = "T" THEN TwoCallAnswers(stage)
  ELSE IF scenario = "L" THEN LongAnswers(stage)
  ELSE IF scenario \in Focuses /\ scenario # stage
       THEN BasicAnswers(stage)
       ELSE AllAnswers(stage)

\* Scenario A of the specification: descriptor 2 answers 403 AccessDenied,
\* descriptor 3 answers 200 with content OK and usage 12/3
ScriptA ==
  At("boto3", 1) :> Failure(403, ClientErrorText("AccessDeniedException", TextAccessDenied))
  @@ At("absk", 1) :> Answer(200, "", DataOK)

\* Scenario B: candidate 1 answers 429, candidate 2 answers 200
ScriptB ==
  At("bearer", 1) :> Failure(429, TextThrottled)
  @@ At("bearer", 2) :> Answer(200, "", DataOK)
  @@ At("boto3", 1) :> Failure(429, ClientErrorText("ThrottlingException", TextThrottled))
  @@ At("boto3", 2) :> Answer(200, "", DataOK)
  @@ At("absk", 1) :> Failure(429, TextThrottled)
  @@ At("absk", 2) :> Answer(200, "", DataOK)

\* Scenario C: every Bedrock candidate answers 404 model not found
ScriptC ==
  [ p \in { At(st, j) : st \in {"bearer", "boto3", "absk"}, j \in 1..5 } |->
      IF p.stage = "boto3"
      THEN Failure(404, ClientErrorText("ResourceNotFoundException", TextNotFound))
      ELSE Failure(404, TextNotFound) ]

\* Scenario D is about the request, not the answers: every candidate of
\* every chain answers 404, so that every candidate is sent a request
ScriptD ==
  [ p \in { At(st, j) : st \in {"bearer", "boto3", "absk", "minimax"}, j \in 1..5 } |->
      CASE p.stage = "boto3" ->
             Failure(404, ClientErrorText("ResourceNotFoundException", TextNotFound))
        [] p.stage = "minimax" ->
             Failure(404, ApiStatusErrorText(404, "not_found_error", TextNotFound))
        [] OTHER -> Failure(404, TextNotFound) ]

Script(sc) ==
  CASE sc = "A" -> ScriptA
    [] sc = "B" -> ScriptB
    [] sc = "C" -> ScriptC
    [] sc = "D" -> ScriptD
    [] OTHER -> [p \in {} |-> Failure(0, "")]

\* the answers the provider may give to the call at position p
Answers(p) ==
  IF p \in DOMAIN Script(scenario) THEN { Script(scenario)[p] } ELSE AnswersOf(p.stage)

SecretValues == { "", "secret" }

AllSettings ==
  [ aws_bearer_token_bedrock : SecretValues,
    aws_access_key_id : SecretValues,
    aws_secret_access_key : SecretValues,
    aws_bedrock_api_key_backup : SecretValues,
    minimax_api_key : SecretValues ]

IamPresent(cfg) == Truthy(cfg.aws_access_key_id) /\ Truthy(cfg.aws_secret_access_key)

DescriptorsPresent(cfg) ==
  (IF Truthy(cfg.aws_bearer_token_bedrock) THEN {"bearer"} ELSE {})
  \cup (IF IamPresent(cfg) THEN {"boto3"} ELSE {})
  \cup (IF Truthy(cfg.aws_bedrock_api_key_backup) THEN {"absk"} ELSE {})

\* the configurations a scenario is about
ScenarioSettings(sc) ==
  CASE sc = "A" -> { cfg \in AllSettings : DescriptorsPresent(cfg) = {"boto3", "absk"} }
    [] sc = "B" -> { cfg \in AllSettings : Cardinality(DescriptorsPresent(cfg)) = 1
                                           /\ IamPresent(cfg) = Truthy(cfg.aws_access_key_id)
                                           /\ IamPresent(cfg) = Truthy(cfg.aws_secret_access_key) }
    [] sc = "C" -> { cfg \in AllSettings : DescriptorsPresent(cfg) # {} }
    [] sc = "D" -> { cfg \in AllSettings :
                       cfg.aws_access_key_id = cfg.aws_secret_access_key }
    [] sc = "T" -> { cfg \in AllSettings :
                       DescriptorsPresent(cfg) = {"bearer", "boto3", "absk"} }
    [] sc = "L" -> { cfg \in AllSettings :
                       cfg.aws_access_key_id = cfg.aws_secret_access_key }
    [] sc = "P" -> { cfg \in AllSettings :
                       /\ cfg.aws_access_key_id = cfg.aws_secret_access_key
                       /\ Cardinality(DescriptorsPresent(cfg)
                             \cup (IF Truthy(cfg.minimax_api_key) THEN {"minimax"} ELSE {})) = 1 }
    [] sc = "R" -> { cfg \in AllSettings :
                       /\ cfg.aws_bearer_token_bedrock = ""
                       /\ cfg.aws_access_key_id = ""
                       /\ cfg.aws_secret_access_key = ""
                       /\ cfg.aws_bedrock_api_key_backup = "" }
    [] OTHER -> AllSettings

\* the conversation: user and assistant turns alternate
Turn(i) ==
  Message(IF i % 2 = 1 THEN "user" ELSE "assistant", "turn " \o ToString(i))

MaxTurns == 3

Conversation(n) == [ i \in 1..n |-> Turn(i) ]

\* list with x inserted after its first k entries
InsertAt(list, k, x) == SubSeq(list, 1, k) \o << x >> \o SubSeq(list, k + 1, Len(list))

\* debate_orchestrator.py lines 173 and 374, routers/debate.py line 330: the
\* system entries the callers write have a non-empty content
SystemContents == { "Answer in one sentence.", "Optimist: it will work." }

\* the message lists of Scenario D: a conversation of 1..MaxTurns turns, and
\* the same with one system entry anywhere in it
MessageLists ==
  { Conversation(n) : n \in 1..MaxTurns }
  \cup UNION { { InsertAt(Conversation(n), k, Message("system", c)) :
                   k \in 0..n, c \in SystemContents } : n \in 1..MaxTurns }

\* the message lists a scenario is about; routers/chat.py line 121 ends the
\* list with the user's message
ScenarioMessages(sc) ==
  IF sc = "D" THEN MessageLists ELSE { Conversation(1) }

NoResponse == Answer(0, "<no call yet>", EmptyObj)

-----------------------------------------------------------------------------
(* The routers and the TTS service before any request *)

\* routers/tts.py: no request served yet
TtsIdle == << >>

\* MiniMaxTTS.synthesize_stream is not running
SseIdle ==
  [ events |-> << >>, terminated |-> TRUE, status |-> 0, rest |-> << >>,
    buf |-> << >>, yielded |-> << >>, exit |-> "idle", exc |-> NoException ]

\* the debate tables are empty and no /turn stream is open
DebateIdle ==
  [ sessions |-> {}, turns |-> << >>, streams |-> << >>, rejected |-> << >>,
    llm_calls |-> 0 ]

\* the chat tables are empty
ChatIdle == [ conversations |-> {}, rows |-> << >>, pending |-> << >>, served |-> << >> ]

\* the accessors, by module
Accessors ==
  { "chat._get_bedrock", "chat._get_minimax", "debate_orchestrator._get_bedrock",
    "debate_orchestrator._get_minimax", "tts._get_tts" }

\* the threads of the pool that run the handlers
Workers == { "w1", "w2" }

\* the accessor calls made in all
MaxCalls == 3

\* a worker that is not in an accessor
IdleCaller == [ acc |-> "", pc |-> "idle" ]

\* the globals are None (routers/chat.py lines 30-31, debate_orchestrator.py
\* lines 19-20, routers/tts.py line 15; 0 stands for None and n > 0 for the
\* n-th instance built) and no accessor is running
LazyIdle ==
  [ globals |-> [ a \in Accessors |-> 0 ], built |-> [ a \in Accessors |-> 0 ],
    callers |-> [ w \in Workers |-> IdleCaller ], returned |-> {}, calls |-> 0 ]

RoutersIdle ==
  /\ tts = TtsIdle
  /\ sse = SseIdle
  /\ debate = DebateIdle
  /\ chatdb = ChatIdle
  /\ lazy = LazyIdle

-----------------------------------------------------------------------------
(* The state machine *)

Cur ==
  [ pos |-> pos, last_err |-> last_err, errors |-> errors,
    infer_errors |-> infer_errors, result |-> result,
    invoke_exit |-> invoke_exit, minimax_exit |-> minimax_exit,
    raised |-> raised ]

Apply(n) ==
  /\ pos' = n.pos
  /\ last_err' = n.last_err
  /\ errors' = n.errors
  /\ infer_errors' = n.infer_errors
  /\ result' = n.result
  /\ invoke_exit' = n.invoke_exit
  /\ minimax_exit' = n.minimax_exit
  /\ raised' = n.raised

Threads == { "t1", "t2" }

\* the locals of a call that has not started: those of _infer, of
\* BedrockService.invoke, of the running chain, and the calls it made
Locals ==
  [ pos |-> At("idle", 0), last_err |-> NoException, errors |-> << >>,
    infer_errors |-> << >>, result |-> NoResult, invoke_exit |-> NotExited,
    minimax_exit |-> NotExited, raised |-> NoException, calls |-> << >> ]

\* the state when _infer is called, in one of the scenarios
InferInit(scenarios) ==
  /\ scenario \in scenarios
  /\ settings \in ScenarioSettings(scenario)
  /\ caller \in {"chat", "debate"}
  /\ messages \in ScenarioMessages(scenario)
  /\ pos = At("idle", 0)
  /\ last_err = NoException
  /\ errors = << >>
  /\ infer_errors = << >>
  /\ result = NoResult
  /\ invoke_exit = NotExited
  /\ minimax_exit = NotExited
  /\ raised = NoException
  /\ calls = << >>
  /\ requests = << >>
  /\ lastResp = NoResponse
  /\ threads = [ t \in Threads |-> Locals ]
  /\ solo = threads

\* the same, with no request to the routers under way
InitIn(scenarios) == InferInit(scenarios) /\ RoutersIdle

Init == InitIn(Focuses \cup {"A", "B", "C"})

\* _infer up to its first network call: the locals after it
infer_start(s) == IF has_aws THEN InvokeFrom(s, 1) ELSE InferMiniMax(s)

\* mutant: debate_orchestrator._infer removes the system entries from the
\* caller's list instead of building user_messages
InferStartStripsInPlace ==
  /\ pos.stage = "idle"
  /\ \E n \in { infer_start(Cur) } : Apply(n)
  /\ messages' = InferArgs(caller, messages).user_messages
  /\ UNCHANGED <<routers, settings, caller, scenario, calls, requests, lastResp,
                 threads, solo>>

\* _infer up to its first network call
InferStart ==
  /\ pos.stage = "idle"
  /\ \E n \in { infer_start(Cur) } : Apply(n)
  /\ UNCHANGED <<routers, settings, caller, messages, scenario, calls, requests, lastResp,
                 threads, solo>>

\* one network call at the current position, answered by resp, after which
\* the locals of the call are n
Attempt(resp, n) ==
  /\ Apply(n)
  /\ calls' = Append(calls, pos)
  /\ requests' = Append(requests, RequestAt(settings, caller, messages, pos))
  /\ lastResp' = resp
  /\ UNCHANGED <<routers, settings, caller, messages, scenario, threads, solo>>

AttemptBearer ==
  /\ pos.stage = "bearer"
  /\ \E resp \in Answers(pos) :
       \E n \in { invoke_bearer_chain(Cur, pos.idx, resp) } : Attempt(resp, n)

AttemptBoto3 ==
  /\ pos.stage = "boto3"
  /\ \E resp \in Answers(pos) :
       \E n \in { invoke_boto3_hackathon(Cur, pos.idx, resp) } : Attempt(resp, n)

AttemptAbsk ==
  /\ pos.stage = "absk"
  /\ \E resp \in Answers(pos) :
       \E n \in { invoke_absk_chain(Cur, pos.idx, resp) } : Attempt(resp, n)

AttemptMiniMax ==
  /\ pos.stage = "minimax"
  /\ \E resp \in Answers(pos) :
       \E n \in { minimax_invoke(Cur, pos.idx, resp) } : Attempt(resp, n)

Next ==
  \/ InferStart
  \/ AttemptBearer
  \/ AttemptBoto3
  \/ AttemptAbsk
  \/ AttemptMiniMax

Spec == Init /\ [][Next]_vars

\* the calls of Scenario D
InitRequest == InitIn({"D"})

SpecRequest == InitRequest /\ [][Next]_vars

-----------------------------------------------------------------------------
(* One call after the other: when a call has returned or raised, the caller *)
(* calls _infer again (the debate makes one call per turn,                  *)
(* debate_orchestrator.py lines 181 and 379).  The fields of BedrockService *)
(* and MiniMaxChat are copies of the settings made by __init__ (bedrock.py  *)
(* lines 83-88, minimax_chat.py line 47); `settings` stands for them.  The  *)
(* chains are module constants that the loops only iterate over.            *)

InferAgain ==
  /\ pos.stage \in { "returned", "raised" }
  /\ Apply(Locals)
  /\ calls' = << >>
  /\ requests' = << >>
  /\ lastResp' = NoResponse
  /\ UNCHANGED <<routers, settings, caller, messages, scenario, threads, solo>>

NextSeq == Next \/ InferAgain

\* calls that succeed (Scenarios A, B) and calls that fail (Scenario D)
InitSeq == InitIn({"A", "B", "D"})

SpecSeq == InitSeq /\ [][NextSeq]_vars

-----------------------------------------------------------------------------
(* Two calls of _infer at once, on the same BedrockService and MiniMaxChat  *)
(* (routers/chat.py is served by a thread pool).  Each call has its own     *)
(* locals; the services' fields are written by __init__ only (bedrock.py    *)
(* lines 83-88, minimax_chat.py line 47), and _http_invoke opens its own    *)
(* httpx.Client for each call (line 263).                                   *)

\* one pass of the loop of the chain the call s is in, answered by resp
ChainStep(s, resp) ==
  CASE s.pos.stage = "bearer" -> invoke_bearer_chain(s, s.pos.idx, resp)
    [] s.pos.stage = "boto3" -> invoke_boto3_hackathon(s, s.pos.idx, resp)
    [] s.pos.stage = "absk" -> invoke_absk_chain(s, s.pos.idx, resp)
    [] s.pos.stage = "minimax" -> minimax_invoke(s, s.pos.idx, resp)

\* the same, with the call recorded
CallStep(s, resp) == [ ChainStep(s, resp) EXCEPT !.calls = Append(s.calls, s.pos) ]

\* mutant: `errors` is an attribute of the service, one list for all calls
FrameSharedErrors(t) == [ threads[t] EXCEPT !.errors = threads["t1"].errors ]

\* the frame of call t: what its code reads and writes
Frame(t) == threads[t]

ThreadStart ==
  \E t \in Threads :
    /\ threads[t].pos.stage = "idle"
    /\ threads' = [ threads EXCEPT ![t] = infer_start(Frame(t)) ]
    /\ solo' = [ solo EXCEPT ![t] = infer_start(solo[t]) ]
    /\ UNCHANGED <<routers, settings, caller, messages, scenario, pos, last_err, errors,
                   infer_errors, result, invoke_exit, minimax_exit, raised,
                   calls, requests, lastResp>>

ThreadAttempt ==
  \E t \in Threads :
    /\ threads[t].pos.stage \in { "bearer", "boto3", "absk", "minimax" }
    /\ \E resp \in Answers(threads[t].pos) :
         /\ threads' = [ threads EXCEPT ![t] = CallStep(Frame(t), resp) ]
         /\ solo' = [ solo EXCEPT ![t] = CallStep(solo[t], resp) ]
    /\ UNCHANGED <<routers, settings, caller, messages, scenario, pos, last_err, errors,
                   infer_errors, result, invoke_exit, minimax_exit, raised,
                   calls, requests, lastResp>>

NextTwo == ThreadStart \/ ThreadAttempt

\* the calls of Scenario T
InitTwo == InitIn({"T"})

SpecTwo == InitTwo /\ [][NextTwo]_vars

\* the calls of Scenario L
InitLong == InitIn({"L"})

SpecLong == InitLong /\ [][Next]_vars

\* the calls of Scenario P
InitParse == InitIn({"P"})

SpecParse == InitParse /\ [][Next]_vars

-----------------------------------------------------------------------------
(* services/minimax_tts.py                                                  *)
(*                                                                          *)
(* Audio travels hex-encoded; bytes are sequences of numbers 0..255.  The   *)
(* text of an SSE response is a sequence of atoms: the newline, the field   *)
(* name "data:", a blank, the two halves of the JSON text of an event, and  *)
(* text that is no JSON.  The transport delivers it in raw pieces cut at    *)
(* any atom boundary, so a piece can end inside a line and inside a JSON    *)
(* text.                                                                    *)

HexDigits == "0123456789abcdef"

HexVal(c) == CHOOSE v \in 0..15 : SubSeq(HexDigits, v + 1, v + 1) = c

\* bytes.fromhex(h)
fromhex(h) ==
  [ i \in 1..(Len(h) \div 2) |->
      16 * HexVal(SubSeq(h, 2 * i - 1, 2 * i - 1)) + HexVal(SubSeq(h, 2 * i, 2 * i)) ]

\* str(x) in an f-string
Str(x) == IF x = None THEN "None" ELSE x

TtsReturn(audio) == [ tag |-> "return", audio |-> audio, exc |-> NoException ]
TtsRaise(e) == [ tag |-> "raise", audio |-> << >>, exc |-> e ]

\* mutant: synthesize does not look at base_resp
synthesize_ignores_base_resp(resp) ==
  IF resp.status = 0 THEN TtsRaise(OtherError(resp.text))
  ELSE IF resp.status # 200
    THEN TtsRaise(RuntimeError("MiniMax TTS returned " \o ToString(resp.status)
                               \o ": " \o Prefix(resp.text, 200)))
  ELSE IF "data" \notin DOMAIN resp.data THEN TtsReturn(<< >>)
  ELSE TtsReturn(fromhex(resp.data.data.audio))

\* MiniMaxTTS.synthesize, the provider having answered resp (status 0: no
\* HTTP answer, client.post raises)
synthesize(resp) ==
  IF resp.status = 0 THEN TtsRaise(OtherError(resp.text))
  ELSE IF resp.status # 200
    THEN TtsRaise(RuntimeError("MiniMax TTS returned " \o ToString(resp.status)
                               \o ": " \o Prefix(resp.text, 200)))
  ELSE LET base_resp == Get(resp.data, "base_resp", EmptyObj) IN
    IF Get(base_resp, "status_code", 0) # 0
      THEN TtsRaise(RuntimeError("MiniMax TTS: "
                                 \o Str(Get(base_resp, "status_msg", None))))
    ELSE IF "data" \notin DOMAIN resp.data THEN TtsRaise(OtherError("KeyError: 'data'"))
    ELSE TtsReturn(fromhex(resp.data.data.audio))

(* the atoms of an SSE text *)
NL == [ k |-> "\n" ]
SP == [ k |-> " " ]
DataField == [ k |-> "data:" ]
Comment == [ k |-> ": keep-alive" ]
Garbage == [ k |-> "{\"data\":" ]
JsonHead(evt) == [ k |-> "json", half |-> 1, evt |-> evt ]
JsonTail(evt) == [ k |-> "json", half |-> 2, evt |-> evt ]

\* "\n" in buf: the position of the first newline, 0 when there is none
FirstNL(buf) ==
  IF \E i \in 1..Len(buf) : buf[i] = NL
    THEN CHOOSE i \in 1..Len(buf) : buf[i] = NL /\ \A j \in 1..(i - 1) : buf[j] # NL
    ELSE 0

\* str.strip()
RECURSIVE lstrip(_)
lstrip(line) ==
  IF line # << >> /\ Head(line) = SP THEN lstrip(Tail(line)) ELSE line

RECURSIVE rstrip(_)
rstrip(line) ==
  IF line # << >> /\ line[Len(line)] = SP
    THEN rstrip(SubSeq(line, 1, Len(line) - 1)) ELSE line

strip(line) == rstrip(lstrip(line))

\* json.loads accepts the text made of the two halves of one event's JSON
IsJson(text) ==
  /\ Len(text) = 2
  /\ text[1].k = "json" /\ text[2].k = "json"
  /\ text[1].half = 1 /\ text[2].half = 2
  /\ text[1].evt = text[2].evt

Skip == [ tag |-> "continue", audio |-> << >>, exc |-> NoException ]
Yield(audio) == [ tag |-> "yield", audio |-> audio, exc |-> NoException ]

\* mutant: the final summary event is yielded like any other
HandleLineYieldsSummary(rawline) ==
  LET line == strip(rawline) IN
  IF line = << >> \/ Head(line) # DataField THEN Skip
  ELSE LET json_str == strip(Tail(line)) IN
    IF json_str = << >> THEN Skip
    ELSE IF ~IsJson(json_str) THEN Skip
    ELSE LET evt == json_str[1].evt
             base_resp == Get(evt, "base_resp", EmptyObj)
             status_code == Get(base_resp, "status_code", 0)
             hex_audio == Get(Get(evt, "data", EmptyObj), "audio", "")
         IN IF status_code # 0
              THEN TtsRaise(RuntimeError("MiniMax TTS error (" \o ToString(status_code)
                       \o "): " \o Get(base_resp, "status_msg", "unknown TTS error")))
            ELSE IF hex_audio = "" THEN Skip
            ELSE Yield(fromhex(hex_audio))

\* synthesize_stream lines 184-223: what one line of the buffer leads to
HandleLine(rawline) ==
  LET line == strip(rawline) IN
  IF line = << >> \/ Head(line) # DataField THEN Skip
  ELSE LET json_str == strip(Tail(line)) IN
    IF json_str = << >> THEN Skip
    ELSE IF ~IsJson(json_str) THEN Skip
    ELSE LET evt == json_str[1].evt
             base_resp == Get(evt, "base_resp", EmptyObj)
             status_code == Get(base_resp, "status_code", 0)
             has_extra == "extra_info" \in DOMAIN evt
             hex_audio == Get(Get(evt, "data", EmptyObj), "audio", "")
         IN IF status_code # 0
              THEN TtsRaise(RuntimeError("MiniMax TTS error (" \o ToString(status_code)
                       \o "): " \o Get(base_resp, "status_msg", "unknown TTS error")))
            ELSE IF hex_audio = "" THEN Skip
            ELSE IF has_extra THEN Skip
            ELSE Yield(fromhex(hex_audio))

\* synthesize_stream lines 182-223: the loop `while "\n" in buf`, run on the
\* generator's locals r
RECURSIVE Drain(_)
Drain(r) ==
  LET i == FirstNL(r.buf) IN
  IF i = 0 THEN r
  ELSE LET line == SubSeq(r.buf, 1, i - 1)
           buf == SubSeq(r.buf, i + 1, Len(r.buf))
           h == HandleLine(line)
       IN CASE h.tag = "raise" -> [ r EXCEPT !.buf = buf, !.exit = "raised", !.exc = h.exc ]
            [] h.tag = "yield" ->
                 Drain([ r EXCEPT !.buf = buf, !.yielded = Append(r.yielded, h.audio) ])
            [] OTHER -> Drain([ r EXCEPT !.buf = buf ])

\* mutant: the buffer is replaced by the piece, not extended by it
FeedDropsBuffer(r, raw) == Drain([ r EXCEPT !.buf = raw ])

\* synthesize_stream lines 180-181: one piece of response.iter_text()
Feed(r, raw) == Drain([ r EXCEPT !.buf = r.buf \o raw ])

(* what the provider streams *)

Ok == [ status_code |-> 0, status_msg |-> "success" ]

ChunkEvent(hex) ==
  [ data |-> [ audio |-> hex, status |-> 1 ], trace_id |-> "04ed", base_resp |-> Ok ]

\* an event with no base_resp
BareEvent(hex) == [ data |-> [ audio |-> hex, status |-> 1 ] ]

\* an event with no audio in it
StatusEvent == [ trace_id |-> "04ed", base_resp |-> Ok ]

ErrorEvent ==
  [ trace_id |-> "04ed", base_resp |-> [ status_code |-> 1002, status_msg |-> "rate limit" ] ]

\* the final event: all the audio sent, and extra_info
SummaryEvent(hex) ==
  [ data |-> [ audio |-> hex, status |-> 2 ], extra_info |-> [ audio_length |-> 1200 ],
    trace_id |-> "04ed", base_resp |-> Ok ]

EventKinds == { "chunk", "bare", "status", "error", "summary", "comment", "malformed" }

HexOf(kind) ==
  CASE kind = "chunk" -> "fffb90c4"
    [] kind = "bare" -> "00a1"
    [] OTHER -> ""

\* the hex audio of all the events of a list, concatenated
RECURSIVE AllHex(_)
AllHex(kinds) ==
  IF kinds = << >> THEN "" ELSE HexOf(Head(kinds)) \o AllHex(Tail(kinds))

\* the JSON object of the i-th event sent (EmptyObj: the line carries none)
EventAt(kinds, i) ==
  CASE kinds[i] = "chunk" -> ChunkEvent(HexOf("chunk"))
    [] kinds[i] = "bare" -> BareEvent(HexOf("bare"))
    [] kinds[i] = "status" -> StatusEvent
    [] kinds[i] = "error" -> ErrorEvent
    [] kinds[i] = "summary" -> SummaryEvent(AllHex(SubSeq(kinds, 1, i - 1)))
    [] OTHER -> EmptyObj

\* the line of the i-th event, without its newline
LineAt(kinds, i) ==
  CASE kinds[i] = "comment" -> << Comment >>
    [] kinds[i] = "malformed" -> << DataField, SP, Garbage >>
    [] OTHER -> << DataField, SP, JsonHead(EventAt(kinds, i)), JsonTail(EventAt(kinds, i)) >>

\* the response text: every event ends with "\n\n", except that the last one
\* has no newline at all when the text is not terminated
RECURSIVE SseText(_, _, _)
SseText(kinds, i, terminated) ==
  IF i > Len(kinds) THEN << >>
  ELSE LineAt(kinds, i)
       \o (IF i = Len(kinds) /\ ~terminated THEN << >> ELSE << NL, NL >>)
       \o SseText(kinds, i + 1, terminated)

MaxEvents == 3

EventLists == UNION { [ 1..n -> EventKinds ] : n \in 1..MaxEvents }

\* the HTTP statuses of the streaming answer
StreamStatuses == { 200, 500 }

-----------------------------------------------------------------------------
(* One run of MiniMaxTTS.synthesize_stream, consumed to its end.  The       *)
(* generator's locals are buf and what it has yielded so far; `rest` is the *)
(* part of the response text the transport has not delivered yet.           *)

\* the call, the provider being about to answer with this status and text
StreamCall(status, kinds, terminated) ==
  [ SseIdle EXCEPT !.events = kinds, !.terminated = terminated, !.status = status,
                   !.rest = SseText(kinds, 1, terminated) ]

\* synthesize_stream lines 174-179: the request is sent and the status read
Open(r) ==
  IF r.status # 200
    THEN [ r EXCEPT !.exit = "raised",
                    !.exc = RuntimeError("TTS stream returned " \o ToString(r.status)) ]
    ELSE [ r EXCEPT !.exit = "running" ]

\* line 180: iter_text is exhausted, the generator returns
Close(r) == IF r.exit = "running" THEN [ r EXCEPT !.exit = "returned" ] ELSE r

\* the whole run, the text arriving in one piece
StreamAll(status, kinds, terminated) ==
  LET r == Open(StreamCall(status, kinds, terminated)) IN
  IF r.exit = "raised" THEN r
  ELSE Close([ Feed(r, r.rest) EXCEPT !.rest = << >> ])

StreamOpen ==
  /\ sse.exit = "idle"
  /\ sse' = Open(sse)
  /\ UNCHANGED <<inference, tts, debate, chatdb, lazy>>

\* the transport delivers the next piece, of any length
StreamRaw ==
  /\ sse.exit = "running"
  /\ sse.rest # << >>
  /\ \E k \in 1..Len(sse.rest) :
       sse' = [ Feed(sse, SubSeq(sse.rest, 1, k))
                  EXCEPT !.rest = SubSeq(sse.rest, k + 1, Len(sse.rest)) ]
  /\ UNCHANGED <<inference, tts, debate, chatdb, lazy>>

StreamEnd ==
  /\ sse.exit = "running"
  /\ sse.rest = << >>
  /\ sse' = Close(sse)
  /\ UNCHANGED <<inference, tts, debate, chatdb, lazy>>

-----------------------------------------------------------------------------
(* routers/tts.py.  A request text is kept as what text.strip() leaves of   *)
(* it and its length, the two things the handlers look at.                  *)

Text(stripped, length) == [ stripped |-> stripped, len |-> length ]

\* the limit of /api/tts
TEXT_LIMIT == 10000

\* the limit of /api/tts/stream
STREAM_TEXT_LIMIT == 5000

TtsTexts ==
  { Text("", 0), Text("", 3), Text("Hello", 5),
    Text("An incident report", STREAM_TEXT_LIMIT),
    Text("An incident report", STREAM_TEXT_LIMIT + 1),
    Text("An incident report", TEXT_LIMIT),
    Text("An incident report", TEXT_LIMIT + 1) }

\* mutant: TTSRequest declares speed and pitch
TTSRequestWithSpeed(text) ==
  [ text |-> text, voice_id |-> "English_expressive_narrator", emotion |-> None,
    speed |-> 1, pitch |-> 0 ]

\* models.py: the fields of a TTSRequest
TTSRequest(text) ==
  [ text |-> text, voice_id |-> "English_expressive_narrator", emotion |-> None ]

HTTPException(status, detail) == [ status |-> status, detail |-> detail, body |-> << >> ]

\* Response and StreamingResponse: the body is what the caller receives
Response(content) == [ status |-> 200, detail |-> "", body |-> content ]

\* what the server answers when a handler raises anything else
InternalServerError == HTTPException(500, "Internal Server Error")

\* _get_tts raises when the key is not configured
TtsConfigured(cfg) == Truthy(cfg.minimax_api_key)

\* POST /api/tts
text_to_speech(req, cfg, resp) ==
  IF req.text.stripped = "" THEN HTTPException(400, "Text cannot be empty")
  ELSE IF req.text.len > TEXT_LIMIT
    THEN HTTPException(400, "Text exceeds 10,000 char limit")
  ELSE IF ~TtsConfigured(cfg) THEN HTTPException(503, "MiniMax API key not configured")
  ELSE LET out == synthesize(resp) IN
    IF out.tag = "raise" THEN HTTPException(502, "TTS error: " \o out.exc.msg)
    ELSE Response(out.audio)

\* whether text_to_speech gets as far as calling the provider
BatchCalls(req, cfg) ==
  req.text.stripped # "" /\ req.text.len <= TEXT_LIMIT /\ TtsConfigured(cfg)

\* the generator `generate`: it passes on the chunks of the run r and logs
\* an exception of synthesize_stream; the response ends normally either way
RECURSIVE Concat(_)
Concat(chunks) == IF chunks = << >> THEN << >> ELSE Head(chunks) \o Concat(Tail(chunks))

generate(r) == Concat(r.yielded)

\* whether text_to_speech_stream gets as far as its StreamingResponse: line
\* 77 reads req.speed and req.pitch
StreamCalls(req, cfg) ==
  /\ req.text.stripped # "" /\ req.text.len <= STREAM_TEXT_LIMIT /\ TtsConfigured(cfg)
  /\ "speed" \in DOMAIN req /\ "pitch" \in DOMAIN req

\* POST /api/tts/stream, r being the run of synthesize_stream it would make
text_to_speech_stream(req, cfg, r) ==
  IF req.text.stripped = "" THEN HTTPException(400, "Text cannot be empty")
  ELSE IF req.text.len > STREAM_TEXT_LIMIT
    THEN HTTPException(400, "Text too long for streaming")
  ELSE IF ~TtsConfigured(cfg) THEN HTTPException(503, "MiniMax API key not configured")
  ELSE IF "speed" \notin DOMAIN req \/ "pitch" \notin DOMAIN req
    THEN InternalServerError
  ELSE Response(generate(r))

\* what the provider answers to the batch request
TtsAnswers ==
  { Failure(0, "timed out"),
    Failure(500, "internal error"),
    Answer(200, "", [ base_resp |-> [ status_code |-> 1004, status_msg |-> "login fail" ] ]),
    Answer(200, "", [ data |-> [ audio |-> "" ], base_resp |-> [ status_code |-> 2013 ] ]),
    Answer(200, "", [ data |-> [ audio |-> "fffb90c4" ],
                      extra_info |-> [ audio_length |-> 1200 ], base_resp |-> Ok ]),
    Answer(200, "", [ data |-> [ audio |-> "00a1" ] ]) }

\* what the provider would stream
TtsRuns ==
  { StreamAll(200, << "chunk", "bare", "summary" >>, TRUE),
    StreamAll(200, << "chunk", "error", "bare" >>, TRUE),
    StreamAll(200, << "error" >>, TRUE),
    StreamAll(500, << "error" >>, TRUE) }

MaxRequests == 2

Served(endpoint, req, called, resp, r, response) ==
  [ endpoint |-> endpoint, req |-> req, called |-> called, resp |-> resp,
    run |-> r, response |-> response ]

TtsBatch ==
  /\ Len(tts) < MaxRequests
  /\ \E text \in TtsTexts, resp \in TtsAnswers :
       LET req == TTSRequest(text)
           called == BatchCalls(req, settings)
       IN tts' = Append(tts, Served("/api/tts", req, called,
                                    IF called THEN resp ELSE NoResponse, SseIdle,
                                    text_to_speech(req, settings, resp)))
  /\ UNCHANGED <<inference, sse, debate, chatdb, lazy>>

TtsStream ==
  /\ Len(tts) < MaxRequests
  /\ \E text \in TtsTexts, r \in TtsRuns :
       LET req == TTSRequest(text)
           called == StreamCalls(req, settings)
       IN tts' = Append(tts, Served("/api/tts/stream", req, called, NoResponse,
                                    IF called THEN r ELSE SseIdle,
                                    text_to_speech_stream(req, settings, r)))
  /\ UNCHANGED <<inference, sse, debate, chatdb, lazy>>

-----------------------------------------------------------------------------
(* The specifications of the routers and of the TTS service.  No _infer     *)
(* call of the inference model is under way in them.                        *)

\* the settings: only the MiniMax key matters to the routers
InferIdle == InferInit({"R"}) /\ caller = "chat"

InitStream ==
  /\ InferIdle
  /\ settings.minimax_api_key # ""
  /\ sse \in { StreamCall(st, ks, t) :
                 st \in StreamStatuses, ks \in EventLists, t \in BOOLEAN }
  /\ tts = TtsIdle /\ debate = DebateIdle /\ chatdb = ChatIdle /\ lazy = LazyIdle

NextStream == StreamOpen \/ StreamRaw \/ StreamEnd

SpecStream == InitStream /\ [][NextStream]_vars

InitTts ==
  /\ InferIdle
  /\ tts = TtsIdle /\ sse = SseIdle
  /\ debate = DebateIdle /\ chatdb = ChatIdle /\ lazy = LazyIdle

NextTts == TtsBatch \/ TtsStream

SpecTts == InitTts /\ [][NextTts]_vars

-----------------------------------------------------------------------------
(* routers/debate.py: POST /start and POST /{session_id}/turn.  The handler *)
(* generate_turn validates the request and returns a StreamingResponse; the *)
(* generator event_stream then runs step by step, and the steps of streams  *)
(* open at the same time interleave (the handlers are served by a thread    *)
(* pool).  Each step ends at a yield, at the LLM call or at the commit.     *)

\* start_debate lines 117-119: clamp to 2..12 and make it even
ClampTurns(n) ==
  LET c == IF n < 2 THEN 2 ELSE IF n > 12 THEN 12 ELSE n IN
  IF c % 2 # 0 THEN c + 1 ELSE c

\* the num_turns a client asks for
RequestedTurns == { 0, 3 }

\* what _infer does for the debate: it returns a result or raises
InferOutcomes ==
  { Return([ content |-> " We should ship it. ", model |-> MODEL_SONNET_46,
             input_tokens |-> 12, output_tokens |-> 7, stop_reason |-> "end_turn",
             none |-> FALSE ]),
    Raise(RuntimeError("All LLM providers failed: Bedrock: denied; MiniMax: no key")) }

\* str.strip() of the one text the model answers with
StripText(s) == IF s = " We should ship it. " THEN "We should ship it." ELSE s

\* debate_orchestrator.generate_turn lines 379-399
TurnResult(r) ==
  [ text |-> StripText(r.content), model |-> r.model,
    input_tokens |-> r.input_tokens, output_tokens |-> r.output_tokens ]

SessionIds == { "s1" }

\* the session ids a client names: the stored one and one that is not stored
NamedSessions == SessionIds \cup { "unknown" }

\* the turn numbers a client names
TurnNumbers == 0..5

SessionRow(id, num_turns) ==
  [ id |-> id, topic |-> "Ship on Friday?", agent_a_name |-> "Optimist",
    agent_b_name |-> "Skeptic", num_turns |-> num_turns ]

\* _get_session: the session row, or a row with num_turns 0 when none
NoSession == SessionRow("<none>", 0)

get_session(session_id) ==
  IF \E s \in debate.sessions : s.id = session_id
    THEN CHOOSE s \in debate.sessions : s.id = session_id
    ELSE NoSession

\* mutant: agent A speaks on even turns
AgentKeyEvenFirst(turn_number) == IF turn_number % 2 = 0 THEN "a" ELSE "b"

\* generate_turn line 274
AgentKey(turn_number) == IF turn_number % 2 = 1 THEN "a" ELSE "b"

\* generate_turn lines 300-301
NextAgent(turn_number, num_turns) ==
  IF turn_number = num_turns THEN None
  ELSE IF AgentKey(turn_number) = "b" THEN "a" ELSE "b"

\* generate_turn lines 285-298: the stored turns of the session by turn_number
History(session_id) ==
  LET mine == SelectSeq(debate.turns, LAMBDA t : t.session_id = session_id)
      sorted == SortSeq(mine, LAMBDA x, y : x.turn_number < y.turn_number)
  IN [ i \in 1..Len(sorted) |-> [ agent |-> sorted[i].agent, text |-> sorted[i].text ] ]

\* the SSE events of a /turn stream
ThinkingEvent(agent, turn) == [ type |-> "thinking", agent |-> agent, turn |-> turn ]
ErrorEventOf(message) == [ type |-> "error", message |-> message ]
TextEvent(s) ==
  [ type |-> "text", agent |-> s.agent_key, turn |-> s.turn_number,
    text |-> s.turn_result.text, model |-> s.turn_result.model,
    is_final |-> s.is_final, next_agent |-> s.next_agent ]
DoneEvent == [ type |-> "done" ]

NoTurnResult == [ text |-> "", model |-> "", input_tokens |-> 0, output_tokens |-> 0 ]

\* generate_turn lines 264-301 for an accepted request: the locals that
\* event_stream closes over, and the generator not yet started
NewStream(session, turn_number) ==
  [ session_id |-> session.id, turn_number |-> turn_number,
    agent_key |-> AgentKey(turn_number),
    history |-> History(session.id),
    is_final |-> (turn_number = session.num_turns),
    next_agent |-> NextAgent(turn_number, session.num_turns),
    pc |-> "thinking", events |-> << >>, turn_result |-> NoTurnResult, row |-> 0 ]

DebateTurnRow(s) ==
  [ session_id |-> s.session_id, turn_number |-> s.turn_number,
    agent |-> s.agent_key, text |-> s.turn_result.text ]

\* a request the handler answered itself
Rejected(path, session_id, turn_number, status) ==
  [ path |-> path, session_id |-> session_id, turn_number |-> turn_number,
    status |-> status ]

MaxStreams == 2
MaxRejected == 1

\* POST /start: the perspectives are generated and the session is stored, or
\* the generation fails and the answer is 502
StartDebate ==
  /\ debate.sessions = {}
  /\ Len(debate.rejected) < MaxRejected
  /\ \E n \in RequestedTurns, out \in InferOutcomes :
       debate' =
         IF out.tag = "raise"
           THEN [ debate EXCEPT !.llm_calls = @ + 1,
                    !.rejected = Append(@, Rejected("/start", "s1", 0, 502)) ]
           ELSE [ debate EXCEPT !.llm_calls = @ + 1,
                    !.sessions = { SessionRow("s1", ClampTurns(n)) } ]
  /\ UNCHANGED <<inference, tts, sse, chatdb, lazy>>

\* mutant: the turn number is not checked
TurnStatusNoRange(session, turn_number) == IF session = NoSession THEN 404 ELSE 200

\* generate_turn lines 264-271: 404, 400, or the stream is opened
TurnStatus(session, turn_number) ==
  IF session = NoSession THEN 404
  ELSE IF turn_number < 1 \/ turn_number > session.num_turns THEN 400
  ELSE 200

\* POST /{session_id}/turn: the handler
TurnRequest ==
  \E session_id \in NamedSessions, turn_number \in TurnNumbers :
    LET session == get_session(session_id)
        status == TurnStatus(session, turn_number)
    IN /\ IF status = 200
            THEN /\ Len(debate.streams) < MaxStreams
                 /\ debate' = [ debate EXCEPT
                                  !.streams = Append(@, NewStream(session, turn_number)) ]
            ELSE /\ Len(debate.rejected) < MaxRejected
                 /\ debate' = [ debate EXCEPT
                                  !.rejected = Append(@, Rejected("/turn", session_id,
                                                                  turn_number, status)) ]
       /\ UNCHANGED <<inference, tts, sse, chatdb, lazy>>

\* event_stream line 308
EmitThinking ==
  \E i \in 1..Len(debate.streams) :
    LET s == debate.streams[i] IN
    /\ s.pc = "thinking"
    /\ debate' = [ debate EXCEPT !.streams[i] =
                     [ s EXCEPT !.events = Append(@, ThinkingEvent(s.agent_key, s.turn_number)),
                                !.pc = "infer" ] ]
    /\ UNCHANGED <<inference, tts, sse, chatdb, lazy>>

\* mutant: the text event is yielded before the row is stored
StepAfterTextFirst(pc) ==
  CASE pc = "infer" -> "text"
    [] pc = "text" -> "persist"
    [] pc = "persist" -> "done"
    [] OTHER -> "closed"

\* event_stream lines 376-438: the steps after a successful LLM call are the
\* commit, the text event and the done event
StepAfter(pc) ==
  CASE pc = "infer" -> "persist"
    [] pc = "persist" -> "text"
    [] pc = "text" -> "done"
    [] OTHER -> "closed"

\* event_stream lines 370-374: the error event, and return
OnError(s, e) ==
  [ s EXCEPT !.events = Append(@, ErrorEventOf(e.msg)), !.pc = "closed" ]

\* event_stream lines 334-380: the LLM call
TurnInfer ==
  \E i \in 1..Len(debate.streams) :
    LET s == debate.streams[i] IN
    /\ s.pc = "infer"
    /\ \E out \in InferOutcomes :
         debate' = [ debate EXCEPT
                       !.llm_calls = @ + 1,
                       !.streams[i] =
                          IF out.tag = "raise" THEN OnError(s, out.exc)
                          ELSE [ s EXCEPT !.turn_result = TurnResult(out.value),
                                          !.pc = StepAfter("infer") ] ]
    /\ UNCHANGED <<inference, tts, sse, chatdb, lazy>>

\* event_stream lines 399-411: db.add, db.commit
PersistTurn ==
  \E i \in 1..Len(debate.streams) :
    LET s == debate.streams[i] IN
    /\ s.pc = "persist"
    /\ debate' = [ debate EXCEPT
                     !.turns = Append(@, DebateTurnRow(s)),
                     !.streams[i] = [ s EXCEPT !.row = Len(debate.turns) + 1,
                                               !.pc = StepAfter("persist") ] ]
    /\ UNCHANGED <<inference, tts, sse, chatdb, lazy>>

\* event_stream lines 422-437
EmitText ==
  \E i \in 1..Len(debate.streams) :
    LET s == debate.streams[i] IN
    /\ s.pc = "text"
    /\ debate' = [ debate EXCEPT !.streams[i] =
                     [ s EXCEPT !.events = Append(@, TextEvent(s)),
                                !.pc = StepAfter("text") ] ]
    /\ UNCHANGED <<inference, tts, sse, chatdb, lazy>>

\* event_stream line 438
EmitDone ==
  \E i \in 1..Len(debate.streams) :
    LET s == debate.streams[i] IN
    /\ s.pc = "done"
    /\ debate' = [ debate EXCEPT !.streams[i] =
                     [ s EXCEPT !.events = Append(@, DoneEvent),
                                !.pc = StepAfter("done") ] ]
    /\ UNCHANGED <<inference, tts, sse, chatdb, lazy>>

InitDebate ==
  /\ InferIdle
  /\ settings.minimax_api_key # ""
  /\ tts = TtsIdle /\ sse = SseIdle
  /\ debate = DebateIdle /\ chatdb = ChatIdle /\ lazy = LazyIdle

NextDebate ==
  \/ StartDebate
  \/ TurnRequest
  \/ EmitThinking
  \/ TurnInfer
  \/ PersistTurn
  \/ EmitText
  \/ EmitDone

SpecDebate == InitDebate /\ [][NextDebate]_vars

-----------------------------------------------------------------------------
(* routers/chat.py: POST /api/chat.  One request is served at a time here;  *)
(* the handler commits twice, before and after the LLM call, so a request   *)
(* is two steps.                                                            *)

\* the limit on the stripped message
CHAT_LIMIT == 32000

\* a request message: the text sent, what strip() leaves of it, and the
\* length of that
ChatMessage(raw, stripped, length) == [ raw |-> raw, stripped |-> stripped, len |-> length ]

ChatMessages ==
  { ChatMessage("", "", 0), ChatMessage("  ", "", 0), ChatMessage(" Hi ", "Hi", 2),
    ChatMessage("A long report", "A long report", CHAT_LIMIT),
    ChatMessage("A long report", "A long report", CHAT_LIMIT + 1) }

ChatRequest(message, conversation_id) ==
  [ message |-> message, conversation_id |-> conversation_id ]

\* str(uuid.uuid4()): an id no request has used yet
NewId == "uuid-" \o ToString(Len(chatdb.served) + 1)

\* the conversation ids a client sends: none, one of its own making, or one
\* the server gave it
ClientIds == { None, "c1" } \cup { c.id : c \in chatdb.conversations }

ConversationRow(id, title) == [ id |-> id, title |-> title, updates |-> 0 ]

MessageRow(conversation_id, role, content) ==
  [ conversation_id |-> conversation_id, role |-> role, content |-> content ]

\* the tables
Tables == [ conversations |-> chatdb.conversations, rows |-> chatdb.rows ]

\* chat lines 86-90: the status the validation answers with, 200 when it passes
ChatValidation(req) ==
  IF req.message.stripped = "" THEN 400
  ELSE IF req.message.len > CHAT_LIMIT THEN 400
  ELSE 200

\* chat lines 102-107: the conversation is looked up and, when there is none,
\* created and committed
ResolveConversation(convs, conv_id, req) ==
  IF \E c \in convs : c.id = conv_id THEN convs
  ELSE convs \cup { ConversationRow(conv_id, Prefix(req.message.raw, 80)) }

\* chat lines 111-121: the last 20 rows of the conversation and the message
LoadMessages(rows, conv_id, req) ==
  LET mine == SelectSeq(rows, LAMBDA r : r.conversation_id = conv_id)
      recent == SubSeq(mine, IF Len(mine) > 20 THEN Len(mine) - 19 ELSE 1, Len(mine))
  IN [ i \in 1..Len(recent) |-> Message(recent[i].role, recent[i].content) ]
     \o << Message("user", req.message.stripped) >>

\* mutant: the user row is stored before the LLM is called
PersistMessagesUserFirst(db, conv_id, req, out) ==
  IF out.tag = "raise"
    THEN [ db EXCEPT !.rows = Append(@, MessageRow(conv_id, "user", req.message.raw)) ]
    ELSE [ conversations |->
             { IF c.id = conv_id THEN [ c EXCEPT !.updates = @ + 1 ] ELSE c :
                 c \in db.conversations },
           rows |-> db.rows \o << MessageRow(conv_id, "user", req.message.raw),
                                  MessageRow(conv_id, "assistant", out.value.content) >> ]

\* chat lines 150-192: nothing is stored when _infer raised; else the user
\* row and the assistant row are added, updated_at is set, and one commit
\* stores them
PersistMessages(db, conv_id, req, out) ==
  IF out.tag = "raise" THEN db
  ELSE [ conversations |->
           { IF c.id = conv_id THEN [ c EXCEPT !.updates = @ + 1 ] ELSE c :
               c \in db.conversations },
         rows |-> db.rows \o << MessageRow(conv_id, "user", req.message.raw),
                                MessageRow(conv_id, "assistant", out.value.content) >> ]

\* a request served: its status, and the tables before and after it
ChatServed(req, status, before, after) ==
  [ req |-> req, status |-> status, before |-> before, after |-> after ]

MaxChats == 3

\* chat lines 86-121: validation, conversation, history
ChatBegin ==
  /\ chatdb.pending = << >>
  /\ Len(chatdb.served) < MaxChats
  /\ \E message \in ChatMessages, id \in ClientIds :
       LET req == ChatRequest(message, id)
           conv_id == IF id = None THEN NewId ELSE id
       IN IF ChatValidation(req) # 200
            THEN chatdb' = [ chatdb EXCEPT !.served =
                               Append(@, ChatServed(req, ChatValidation(req), Tables, Tables)) ]
            ELSE chatdb' =
                   [ chatdb EXCEPT
                       !.conversations = ResolveConversation(@, conv_id, req),
                       !.pending = << [ req |-> req, conv_id |-> conv_id, before |-> Tables,
                                        messages |-> LoadMessages(chatdb.rows, conv_id, req) ] >> ]
  /\ UNCHANGED <<inference, tts, sse, debate, lazy>>

\* chat lines 126-220: the LLM call, then 502 or the two rows and 200
ChatInfer ==
  /\ chatdb.pending # << >>
  /\ \E out \in InferOutcomes :
       LET p == chatdb.pending[1]
           db == PersistMessages(Tables, p.conv_id, p.req, out)
       IN chatdb' = [ chatdb EXCEPT
                        !.conversations = db.conversations,
                        !.rows = db.rows,
                        !.pending = << >>,
                        !.served = Append(@, ChatServed(p.req,
                                               IF out.tag = "raise" THEN 502 ELSE 200,
                                               p.before, db)) ]
  /\ UNCHANGED <<inference, tts, sse, debate, lazy>>

InitChat ==
  /\ InferIdle
  /\ settings.minimax_api_key # ""
  /\ tts = TtsIdle /\ sse = SseIdle
  /\ debate = DebateIdle /\ chatdb = ChatIdle /\ lazy = LazyIdle

NextChat == ChatBegin \/ ChatInfer

SpecChat == InitChat /\ [][NextChat]_vars

-----------------------------------------------------------------------------
(* The lazy accessors _get_bedrock, _get_minimax (routers/chat.py and       *)
(* services/debate_orchestrator.py) and _get_tts (routers/tts.py).  The     *)
(* handlers that call them are plain functions, which the server runs in a  *)
(* thread pool: two calls can be under way at once, and a thread can be     *)
(* suspended between the test `is None` and the assignment.                 *)

\* _get_tts lines 21-23: the key is read when _tts is None
AccessorRaises(a, cfg) == a = "tts._get_tts" /\ ~Truthy(cfg.minimax_api_key)

\* `if _x is None:` on the value seen
AfterCheck(seen) == IF seen = 0 THEN "build" ELSE "return"

\* a worker calls an accessor: it reads the global and takes the branch;
\* _get_tts raises 503 when it saw None and no key is set
LazyCheck ==
  \E w \in Workers, a \in Accessors :
    /\ lazy.callers[w].pc = "idle"
    /\ lazy.calls < MaxCalls
    /\ lazy' =
         IF lazy.globals[a] = 0 /\ AccessorRaises(a, settings)
           THEN [ lazy EXCEPT !.calls = @ + 1,
                              !.returned = @ \cup { << a, "HTTPException 503" >> } ]
           ELSE [ lazy EXCEPT !.calls = @ + 1,
                              !.callers[w] = [ acc |-> a, pc |-> AfterCheck(lazy.globals[a]) ] ]
    /\ UNCHANGED <<inference, tts, sse, debate, chatdb>>

\* `_x = Cls(get_settings())`: a new instance is built and assigned
LazyBuild ==
  \E w \in Workers :
    LET c == lazy.callers[w] IN
    /\ c.pc = "build"
    /\ lazy' = [ lazy EXCEPT !.built[c.acc] = @ + 1,
                             !.globals[c.acc] = lazy.built[c.acc] + 1,
                             !.callers[w].pc = "return" ]
    /\ UNCHANGED <<inference, tts, sse, debate, chatdb>>

\* `return _x`
LazyReturn ==
  \E w \in Workers :
    LET c == lazy.callers[w] IN
    /\ c.pc = "return"
    /\ lazy' = [ lazy EXCEPT !.callers[w] = IdleCaller,
                   !.returned = @ \cup { << c.acc, ToString(lazy.globals[c.acc]) >> } ]
    /\ UNCHANGED <<inference, tts, sse, debate, chatdb>>

InitLazy ==
  /\ InferIdle
  /\ tts = TtsIdle /\ sse = SseIdle
  /\ debate = DebateIdle /\ chatdb = ChatIdle /\ lazy = LazyIdle

NextLazy == LazyCheck \/ LazyBuild \/ LazyReturn

SpecLazy == InitLazy /\ [][NextLazy]_vars

-----------------------------------------------------------------------------
(* Vocabulary of the properties *)

LastCall == calls[Len(calls)]

Answered == calls # << >>

BedrockStages == { "bearer", "boto3", "absk" }

\* the order the specification fixes: bearer, IAM, ABSK, then MiniMax
StageRank(stage) ==
  CASE stage = "bearer" -> 1
    [] stage = "boto3" -> 2
    [] stage = "absk" -> 3
    [] stage = "minimax" -> 4

ChainLen(stage) ==
  CASE stage = "bearer" -> Len(BEARER_FALLBACK_CHAIN)
    [] stage = "boto3" -> Len(BOTO3_ATTEMPTS)
    [] stage = "absk" -> Len(ABSK_FALLBACK_CHAIN)
    [] stage = "minimax" -> Len(MODEL_CHAIN)

\* the secret of a stage is configured
Configured(cfg, stage) ==
  CASE stage = "bearer" -> cfg.aws_bearer_token_bedrock # ""
    [] stage = "boto3" -> cfg.aws_access_key_id # "" /\ cfg.aws_secret_access_key # ""
    [] stage = "absk" -> cfg.aws_bedrock_api_key_backup # ""
    [] stage = "minimax" -> cfg.minimax_api_key # ""

Finished == pos.stage \in { "returned", "raised" }

\* the result the candidate at p makes of the answer resp
ResultOf(p, resp) ==
  IF p.stage = "minimax" THEN MiniMaxResult(MODEL_CHAIN[p.idx], resp.data)
  ELSE parse_response(resp.data)

-----------------------------------------------------------------------------
\* C1: first success wins.  Once a candidate is answered HTTP 200 the call
\* has returned that candidate's result (invoke itself when the candidate is
\* a Bedrock one), no further network call is enabled, and MiniMax is never
\* called after BedrockService.invoke returned a result.
C1_FirstSuccessWins ==
  /\ (Answered /\ lastResp.status = 200) =>
       /\ pos.stage = "returned"
       /\ result = ResultOf(LastCall, lastResp)
       /\ (LastCall.stage \in BedrockStages => invoke_exit = Return(result))
       /\ ~ENABLED Next
  /\ invoke_exit.tag = "return" =>
       \A i \in 1..Len(calls) : calls[i].stage # "minimax"

\* a 200 answer after earlier failures, with later candidates left untried
C1_Witness ==
  /\ Answered /\ lastResp.status = 200
  /\ LastCall = At("boto3", 2)
  /\ Len(calls) > 2
  /\ Configured(settings, "absk") /\ Configured(settings, "minimax")

-----------------------------------------------------------------------------
\* C2: a descriptor whose secret is empty (bearer token; IAM access key or
\* secret key; ABSK key; MiniMax API key) is never used for a network call
\* and has no entry in the error lists nor in the errors raised.
C2_EmptySecretSkipped ==
  /\ \A i \in 1..Len(calls) : Configured(settings, calls[i].stage)
  /\ \A st \in BedrockStages :
       ~Configured(settings, st) =>
         /\ \A i \in 1..Len(errors) : ~Contains(errors[i], ErrorLabel(st))
         /\ ~Contains(invoke_exit.exc.msg, ErrorLabel(st))
  /\ Len(errors) <= Cardinality({ st \in BedrockStages : Configured(settings, st) })
  /\ (~(\E st \in BedrockStages : Configured(settings, st))) =>
       /\ invoke_exit = NotExited
       /\ \A i \in 1..Len(infer_errors) : ~Contains(infer_errors[i], "bedrock: ")
  /\ ~Configured(settings, "minimax") =>
       \A i \in 1..Len(infer_errors) : ~Contains(infer_errors[i], "minimax: ")

\* the call failed with the bearer token and one half of the IAM key pair
\* missing: only ABSK was called and only ABSK is in the aggregate error
C2_Witness ==
  /\ ~Configured(settings, "bearer")
  /\ settings.aws_access_key_id # "" /\ settings.aws_secret_access_key = ""
  /\ ~Configured(settings, "minimax")
  /\ pos.stage = "raised"
  /\ Len(calls) = Len(ABSK_FALLBACK_CHAIN)
  /\ Len(errors) = 1

\* the credential itself is rejected: HTTP 401, or HTTP 403 with text saying
\* that the credential or role lacks the permission
AuthRejected(resp) ==
  \/ resp.status = 401
  \/ resp.status = 403
     /\ (Contains(resp.text, "lacks permission") \/ Contains(resp.text, "not authorized"))

RECURSIVE NextConfigured(_)
\* the position invoke reaches when it leaves descriptor number k: the first
\* candidate of the next descriptor whose secret is present
NextConfigured(k) ==
  IF k >= 3 THEN At("none", 0)
  ELSE IF Configured(settings, DescriptorOrder[k + 1]) THEN At(DescriptorOrder[k + 1], 1)
  ELSE NextConfigured(k + 1)

\* C3: after an auth_rejected failure (401, or 403 with lacks-permission
\* text) of a Bedrock candidate, no further candidate of that descriptor is
\* attempted and the next descriptor with a present secret is attempted from
\* its first candidate.
C3_AuthRejectedAbandons ==
  (Answered /\ LastCall.stage \in BedrockStages /\ AuthRejected(lastResp)) =>
    /\ pos.stage # LastCall.stage
    /\ NextConfigured(StageRank(LastCall.stage)).stage # "none" =>
         pos = NextConfigured(StageRank(LastCall.stage))

\* a failure the specification classifies transient (429, 5xx) or
\* not_found_or_unsupported (404)
TransientOrNotFound(resp) == resp.status \in { 404, 429, 500 }

\* C4: in every chain, the MiniMax one included, a transient (429, 5xx) or
\* not-found (404) failure of a candidate that is not the last of its chain
\* is followed by the attempt of the next candidate of the same chain; in
\* Scenario B (candidate 1 answers 429, candidate 2 answers 200) the call
\* returns candidate 2's result.
C4_TransientTriesNext ==
  /\ (Answered /\ TransientOrNotFound(lastResp) /\ LastCall.idx < ChainLen(LastCall.stage)) =>
       pos = At(LastCall.stage, LastCall.idx + 1)
  /\ (scenario = "B" /\ Finished) =>
       /\ pos.stage = "returned"
       /\ Len(calls) = 2 /\ calls[2].idx = 2 /\ calls[1].stage = calls[2].stage
       /\ result = ResultOf(calls[2], Script("B")[calls[2]])

\* C5: a network or timeout error of a candidate attempt (no HTTP answer)
\* is handled inside the chain's loop like a transient failure, the next
\* candidate of the same descriptor is attempted, and invoke does not end
\* with an error before every descriptor with a present secret was tried.
C5_NetworkErrorContained ==
  /\ (Answered /\ LastCall.stage \in BedrockStages /\ lastResp.status = 0
      /\ LastCall.idx < ChainLen(LastCall.stage)) =>
       pos = At(LastCall.stage, LastCall.idx + 1)
  /\ invoke_exit.tag = "raise" =>
       \A st \in BedrockStages :
         Configured(settings, st) => \E i \in 1..Len(calls) : calls[i].stage = st

\* C6: Scenario A.  Bearer token empty, the first IAM candidate answers 403
\* AccessDenied, the first ABSK candidate answers 200 (content OK, usage
\* 12/3): exactly the two calls (IAM 1, ABSK 1) are made, in this order, and
\* the call returns content OK, input_tokens 12, output_tokens 3.
C6_ScenarioA ==
  scenario = "A" =>
    /\ \/ calls = << >>
       \/ calls = << At("boto3", 1) >>
       \/ calls = << At("boto3", 1), At("absk", 1) >>
    /\ Finished =>
         /\ pos.stage = "returned"
         /\ calls = << At("boto3", 1), At("absk", 1) >>
         /\ result.content = "OK"
         /\ result.input_tokens = 12
         /\ result.output_tokens = 3
    /\ Len(calls) = 2 => Finished

C6_Witness ==
  /\ scenario = "A"
  /\ pos.stage = "returned"
  /\ errors = << "boto3_event: boto3 hackathon IAM block: "
                 \o ClientErrorText("AccessDeniedException", TextAccessDenied) >>


\* the entry of `errors` a descriptor leaves in Scenario C
NotFoundEntry(st) ==
  CASE st = "bearer" -> "bearer: 404 [bearer_hackathon/us-west-2]: " \o TextNotFound
    [] st = "boto3" ->
         "boto3_event: " \o ClientErrorText("ResourceNotFoundException", TextNotFound)
    [] st = "absk" -> "absk: 404 [absk_personal/us-east-1]: " \o TextNotFound

\* the error invoke raises when every candidate failed is the aggregate
\* error: at most three messages, one per attempted descriptor, each with
\* the descriptor's label
AggregateNamesDescriptors ==
  (scenario = "C" /\ invoke_exit.tag = "raise") =>
    /\ invoke_exit.exc = AggregateError(errors)
    /\ Len(errors) <= 3
    /\ \A st \in BedrockStages :
         Configured(settings, st) =>
           /\ \E i \in 1..Len(errors) : errors[i] = NotFoundEntry(st)
           /\ Contains(invoke_exit.exc.msg, NotFoundEntry(st))

\* C7: when every candidate of every descriptor with a present secret fails
\* (Scenario C: all answer 404 model not found), invoke raises one aggregate
\* error with at most 3 messages that has, for each attempted descriptor,
\* its label and a failure message of it, and the error the caller of _infer
\* receives still has this per-descriptor detail.
C7_AggregateDetailReachesCaller ==
  /\ AggregateNamesDescriptors
  /\ (scenario = "C" /\ pos.stage = "raised") =>
       \A st \in BedrockStages :
         Configured(settings, st) =>
           /\ Contains(raised.msg, ErrorLabel(st))
           /\ Contains(raised.msg, TextNotFound)

\* (descriptor, candidate) of p is before that of q in lexicographic order
Before(p, q) ==
  \/ StageRank(p.stage) < StageRank(q.stage)
  \/ p.stage = q.stage /\ p.idx < q.idx

\* C8: the network calls of one call of _infer are made in strictly
\* increasing (descriptor, candidate) order (bearer, IAM, ABSK, MiniMax), so
\* none is made twice; a descriptor is entered at its candidate 1, and its
\* candidate j+1 is called only right after its candidate j failed.
C8_StrictOrder ==
  /\ \A i, k \in 1..Len(calls) : i < k => Before(calls[i], calls[k])
  /\ \A k \in 1..Len(calls) :
       calls[k].idx > 1 => k > 1 /\ calls[k - 1] = At(calls[k].stage, calls[k].idx - 1)
  /\ pos.idx > 1 =>
       Answered /\ LastCall = At(pos.stage, pos.idx - 1) /\ lastResp.status # 200
  /\ pos.idx = 1 => \A i \in 1..Len(calls) : Before(calls[i], pos)

\* every candidate of every chain was called
C8_Witness ==
  /\ Len(calls) = Len(BEARER_FALLBACK_CHAIN) + Len(BOTO3_ATTEMPTS)
                  + Len(ABSK_FALLBACK_CHAIN) + Len(MODEL_CHAIN)
  /\ pos.stage = "raised"

\* C9: only a failure with HTTP status 401 or 403 makes a Bedrock chain
\* abandon its remaining candidates: after a failure with any other status
\* (404, 429, 5xx, ...), whatever its body text contains, the next candidate
\* of the same descriptor is attempted.
C9_OnlyAuthStatusAbandons ==
  (Answered /\ LastCall.stage \in BedrockStages
   /\ lastResp.status \notin { 0, 200, 401, 403 }
   /\ LastCall.idx < ChainLen(LastCall.stage)) =>
    pos = At(LastCall.stage, LastCall.idx + 1)

\* C10: a result is returned only for an HTTP 200 answer: the call (and
\* BedrockService.invoke) has returned only if the last candidate called was
\* answered 200, and an answer with any other status leaves no result.
C10_ResultOnly200 ==
  /\ pos.stage = "returned" => Answered /\ lastResp.status = 200
  /\ invoke_exit.tag = "return" =>
       Answered /\ lastResp.status = 200 /\ LastCall.stage \in BedrockStages
  /\ (Answered /\ lastResp.status # 200) =>
       result = NoResult /\ invoke_exit.tag # "return"

\* invoke returned after an earlier descriptor and an earlier candidate failed
C10_Witness ==
  /\ invoke_exit.tag = "return"
  /\ Len(errors) >= 1
  /\ LastCall.idx > 1
  /\ result.content = "Hello\nworld"

-----------------------------------------------------------------------------
\* the (role, content) entries a request's `messages` field carries; the
\* MiniMax request wraps each content in one text block
PlainMessages(p, msgs) ==
  IF p.stage = "minimax"
  THEN [ i \in 1..Len(msgs) |-> Message(msgs[i].role, msgs[i].content[1].text) ]
  ELSE msgs

SystemEntries(msgs) == { i \in 1..Len(msgs) : msgs[i].role = "system" }

RECURSIVE NonSystem(_)
\* the entries of msgs that are not system entries, in their order
NonSystem(msgs) ==
  IF msgs = << >> THEN << >>
  ELSE (IF Head(msgs).role = "system" THEN << >> ELSE << Head(msgs) >>)
       \o NonSystem(Tail(msgs))

\* C11: when the message list has one system entry, the request of every
\* candidate attempt, whichever _infer (chat or debate) is called, has the
\* content of that entry as its `system` field and exactly the other
\* entries, in their order, as its `messages` field.
C11_SystemExtracted ==
  Cardinality(SystemEntries(messages)) = 1 =>
    \A i \in 1..Len(requests) :
      /\ requests[i].body.system =
           messages[CHOOSE k \in SystemEntries(messages) : TRUE].content
      /\ PlainMessages(calls[i], requests[i].body.messages) = NonSystem(messages)

\* the same of debate_orchestrator._infer alone
DebateSystemExtracted == caller = "debate" => C11_SystemExtracted

-----------------------------------------------------------------------------
Returned == pos.stage = "returned"

\* C12: in every result returned, by a Bedrock chain or by MiniMax,
\* input_tokens and output_tokens are present and are integers >= 0, also
\* when the response has no `usage` field or `usage` lacks a counter.
C12_TokenCountsNatural ==
  Returned =>
    /\ {"input_tokens", "output_tokens"} \subseteq DOMAIN result
    /\ result.input_tokens \in Nat
    /\ result.output_tokens \in Nat

\* a result made of a response without `usage`
C12_Witness ==
  /\ Returned
  /\ "usage" \notin DOMAIN lastResp.data
  /\ LastCall.stage \in BedrockStages
  /\ result.input_tokens = 0 /\ result.output_tokens = 0

-----------------------------------------------------------------------------
\* the texts of the text-typed blocks of a response, in their order
TextsOf(data) ==
  LET blocks == IF "content" \in DOMAIN data THEN data.content ELSE << >>
      F[i \in 0..Len(blocks)] ==
        IF i = 0 THEN << >>
        ELSE IF "type" \in DOMAIN blocks[i] /\ blocks[i].type = "text"
             THEN Append(F[i - 1], blocks[i].text)
             ELSE F[i - 1]
  IN F[Len(blocks)]

\* the texts joined by a newline
JoinedByNewline(texts) ==
  LET F[i \in 0..Len(texts)] ==
        IF i = 0 THEN ""
        ELSE IF i = 1 THEN texts[1]
        ELSE F[i - 1] \o "\n" \o texts[i]
  IN F[Len(texts)]

\* C13: for every provider, the content of a returned result is the texts
\* of the text-typed blocks of the response, in their order, joined by a
\* newline, other blocks being ignored; it is empty when there is no text
\* block.
C13_ContentJoinsTextBlocks ==
  Returned => result.content = JoinedByNewline(TextsOf(lastResp.data))

\* the same of the Bedrock chains alone
BedrockContentJoinsTextBlocks ==
  (Returned /\ LastCall.stage \in BedrockStages) => C13_ContentJoinsTextBlocks

\* C14: when a success omits `model`, the `model` of the result is the
\* model id of the candidate that was requested, for every candidate of
\* every chain (MiniMax names its models minimax/<model id>).
C14_ModelFallsBackToRequested ==
  (Returned /\ "model" \notin DOMAIN lastResp.data) =>
    result.model = (IF LastCall.stage = "minimax"
                    THEN "minimax/" \o MODEL_CHAIN[LastCall.idx]
                    ELSE ChainOf(LastCall.stage)[LastCall.idx].model_id)

-----------------------------------------------------------------------------
\* the raw error texts the providers of the scenario answer with
RawErrorTexts ==
  { resp.text : resp \in { a \in UNION { Answers(At(st, j)) :
                                          st \in BedrockStages \cup {"minimax"},
                                          j \in 1..5 } : a.status # 200 } }

\* msg has no more of a raw provider error than its first 200 characters
AtMost200Of(msg) ==
  \A t \in RawErrorTexts : Len(t) > 200 => ~Contains(msg, Prefix(t, 201))

\* C15: an error raised by BedrockService.invoke or by MiniMaxChat.invoke
\* carries of every raw provider error at most its first 200 characters, on
\* every failure path (HTTP chains, boto3 chain, MiniMax chain exhausted).
C15_ErrorsTruncated ==
  /\ invoke_exit.tag = "raise" => AtMost200Of(invoke_exit.exc.msg)
  /\ minimax_exit.tag = "raise" => AtMost200Of(minimax_exit.exc.msg)

\* the same of the HTTP chains (bearer, ABSK) alone
HttpErrorsTruncated ==
  (invoke_exit.tag = "raise" /\ ~Configured(settings, "boto3")) =>
    AtMost200Of(invoke_exit.exc.msg)

-----------------------------------------------------------------------------
\* the number of times the request at position p was attempted
Attempts(p) == Cardinality({ i \in 1..Len(calls) : calls[i] = p })

MiniMaxFailed == Answered /\ LastCall.stage = "minimax" /\ lastResp.status # 200

\* C16, as claimed: in a single-provider call (MiniMaxChat.invoke) the same
\* request is attempted at most 3 times, it is attempted again only after a
\* transient failure (429, 5xx, no answer), and an auth_rejected (401) or
\* not_found (404) failure ends the call after that one attempt.
C16_RetryOnlyTransient ==
  /\ \A i \in 1..Len(calls) : Attempts(calls[i]) <= 3
  /\ (Answered /\ pos = LastCall) => lastResp.status \in { 0, 429, 500 }
  /\ (MiniMaxFailed /\ lastResp.status \in { 401, 404 }) => Finished

\* C16, amended: no request is ever attempted again, whatever its failure;
\* a failure of a MiniMax model ends the call after that one attempt unless
\* its error text has "404" or "model_not_found", and then the next model of
\* MODEL_CHAIN is attempted, the call ending when the last model failed.
C16_NeverRetried ==
  /\ \A i \in 1..Len(calls) : Attempts(calls[i]) = 1 /\ pos # calls[i]
  /\ MiniMaxFailed =>
       IF (Contains(lastResp.text, "404") \/ Contains(Lower(lastResp.text), "model_not_found"))
          /\ LastCall.idx < Len(MODEL_CHAIN)
       THEN pos = At("minimax", LastCall.idx + 1)
       ELSE pos.stage = "raised" /\ minimax_exit.tag = "raise"

\* the second model was attempted after a 404 of the first, and its 429
\* ended the call
C16_Witness ==
  /\ calls = << At("minimax", 1), At("minimax", 2) >>
  /\ lastResp.status = 429
  /\ pos.stage = "raised"

-----------------------------------------------------------------------------
\* C17: of two calls interleaved in any way on the same services, each makes
\* the candidate attempts and has the outcome it has when run alone on the
\* same provider answers: its error lists, its last error and its result
\* are those of the call run alone.
C17_CallsIndependent ==
  \A t \in Threads : threads[t] = solo[t]

\* both calls are under way, one failed in the bearer chain and is in the
\* ABSK chain, the other has returned
C17_Witness ==
  /\ threads["t1"].pos.stage = "absk" /\ Len(threads["t1"].errors) = 2
  /\ threads["t2"].pos.stage = "returned" /\ Len(threads["t2"].errors) = 1

-----------------------------------------------------------------------------
\* C18: no step of any sequence of calls, succeeding or failing, changes the
\* credentials the services were constructed with or the caller's message
\* list (the chains are constants of the module).
C18_ConfigurationUnchanged ==
  [][settings' = settings /\ messages' = messages]_vars

\* a debate call whose list has a system entry has sent requests with the
\* credentials and has failed
C18_Witness ==
  /\ pos.stage = "raised"
  /\ caller = "debate"
  /\ SystemEntries(messages) # {}
  /\ Len(requests) >= 3
  /\ \A i \in 1..Len(requests) :
       requests[i].credential = CredentialOf(settings, calls[i].stage)

-----------------------------------------------------------------------------
\* the number of attempts made in a chain
AttemptsIn(stage) == Cardinality({ i \in 1..Len(calls) : calls[i].stage = stage })

\* the call is at its start or at a candidate of a chain that the provider
\* answers: one of the steps of _infer can be taken
CanStep ==
  \/ pos.stage = "idle"
  \/ /\ pos.stage \in BedrockStages \cup { "minimax" }
     /\ pos.idx \in 1..ChainLen(pos.stage)
     /\ Answers(pos) # {}

\* at most 3 bearer, 3 IAM, 5 ABSK and 3 MiniMax attempts, each of them one
\* network call, and a call that has not ended can take a step
AttemptsBounded ==
  /\ AttemptsIn("bearer") <= 3 /\ AttemptsIn("boto3") <= 3
  /\ AttemptsIn("absk") <= 5 /\ AttemptsIn("minimax") <= 3
  /\ Len(requests) = Len(calls)
  /\ \A i \in 1..Len(calls) : Attempts(calls[i]) = 1
  /\ ~Finished => CanStep

\* the candidates in the order of the chains
AllCandidates ==
  [ i \in 1..Len(BEARER_FALLBACK_CHAIN) |-> At("bearer", i) ]
  \o [ i \in 1..Len(BOTO3_ATTEMPTS) |-> At("boto3", i) ]
  \o [ i \in 1..Len(ABSK_FALLBACK_CHAIN) |-> At("absk", i) ]
  \o [ i \in 1..Len(MODEL_CHAIN) |-> At("minimax", i) ]

\* the number of steps the call can still take, at most
Remaining ==
  IF Finished THEN 0
  ELSE IF pos.stage = "idle" THEN Len(AllCandidates) + 1
  ELSE Len(AllCandidates) + 1 - (CHOOSE i \in 1..Len(AllCandidates) : AllCandidates[i] = pos)

\* every step brings the call nearer to its end: it ends after at most one
\* step per candidate, given that each network call is answered or times out
Terminates == [][Remaining' < Remaining]_vars

\* C20: every candidate attempt is one network call; after at most 3 bearer,
\* 3 IAM, 5 ABSK (and 3 MiniMax) attempts the call has ended, and
\* BedrockService.invoke has then returned a result or raised its aggregate
\* error, also when a network call timed out.
C20_EndsWithResultOrAggregate ==
  /\ AttemptsBounded
  /\ Finished =>
       /\ Returned \/ raised.msg = InferHeader(caller) \o Join("; ", infer_errors)
       /\ invoke_exit.tag = "return" => Returned /\ result = invoke_exit.value
       /\ invoke_exit.tag = "raise" => invoke_exit.exc = AggregateError(errors)

-----------------------------------------------------------------------------
(* The TTS endpoints and synthesize_stream *)

\* the provider answered the batch request with HTTP 200 and a non-zero
\* base_resp.status_code
BatchEmbeddedFailure(e) ==
  /\ e.endpoint = "/api/tts" /\ e.called
  /\ e.resp.status = 200
  /\ Get(Get(e.resp.data, "base_resp", EmptyObj), "status_code", 0) # 0

\* the provider answered the stream request with HTTP 200 and an event with a
\* non-zero status code
StreamEmbeddedFailure(e) ==
  /\ e.endpoint = "/api/tts/stream" /\ e.called
  /\ e.run.status = 200
  /\ \E i \in 1..Len(e.run.events) : e.run.events[i] = "error"

\* C21: when the provider answers HTTP 200 with a non-zero embedded
\* base_resp.status_code, in the batch body or in a stream event, the caller
\* of /api/tts and of /api/tts/stream receives an error and never a completed
\* audio response.  (/api/tts answers 502; /api/tts/stream never gets as far
\* as the provider: TTSRequest has no speed and no pitch, so line 77 raises
\* and every request that passes the validation is answered 500.)
C21_EmbeddedFailureIsAnError ==
  \A i \in 1..Len(tts) :
    BatchEmbeddedFailure(tts[i]) \/ StreamEmbeddedFailure(tts[i])
      => tts[i].response.status >= 400

\* /api/tts answered 502 to an embedded failure, and /api/tts/stream answered
\* a request that passed the validation
C21_Witness ==
  /\ \E i \in 1..Len(tts) :
       BatchEmbeddedFailure(tts[i]) /\ tts[i].response.status = 502
  /\ \E i \in 1..Len(tts) :
       /\ tts[i].endpoint = "/api/tts/stream"
       /\ tts[i].req.text.stripped # "" /\ tts[i].req.text.len <= STREAM_TEXT_LIMIT
       /\ TtsConfigured(settings)
       /\ tts[i].response.status = 500

\* /api/tts/stream never answers 200
StreamNeverAnswers ==
  \A i \in 1..Len(tts) :
    tts[i].endpoint = "/api/tts/stream" => tts[i].response.status >= 400

IsPrefix(s, t) == Len(s) <= Len(t) /\ s = SubSeq(t, 1, Len(s))

\* the audio bytes of the events the provider sends
BytesOf(kind) ==
  CASE kind = "chunk" -> << 255, 251, 144, 196 >>
    [] kind = "bare" -> << 0, 161 >>

\* the audio of the events of a list that carry non-empty audio and no
\* extra_info, up to the first event with a non-zero status code
RECURSIVE AudioChunks(_)
AudioChunks(kinds) ==
  IF kinds = << >> \/ Head(kinds) = "error" THEN << >>
  ELSE (IF Head(kinds) \in { "chunk", "bare" } THEN << BytesOf(Head(kinds)) >> ELSE << >>)
       \o AudioChunks(Tail(kinds))

\* the data events received: the lines ended by their newline
Received ==
  IF sse.terminated THEN sse.events ELSE SubSeq(sse.events, 1, Len(sse.events) - 1)

Stopped == sse.exit \in { "returned", "raised" }

\* C29: synthesize_stream yields exactly the decoded audio of the data events
\* (data lines ended by their newline) that carry non-empty audio and no
\* extra_info, in arrival order; the final summary event is never yielded,
\* and nothing is yielded after an event with a non-zero status code.
C29_YieldsIncrementalAudio ==
  /\ IsPrefix(sse.yielded, AudioChunks(Received))
  /\ Stopped /\ sse.status = 200 => sse.yielded = AudioChunks(Received)

\* a run that skipped the summary event, and one stopped by an error event
C29_Witness ==
  /\ Stopped
  /\ \/ /\ sse.events = << "chunk", "bare", "summary" >>
        /\ sse.yielded = << BytesOf("chunk"), BytesOf("bare") >>
        /\ sse.exit = "returned"
     \/ /\ sse.events = << "chunk", "error", "bare" >> /\ sse.terminated
        /\ sse.yielded = << BytesOf("chunk") >>
        /\ sse.exit = "raised"

\* what synthesize_stream yields does not depend on the pieces the text
\* arrives in
SplitIndependent ==
  Stopped => sse.yielded = StreamAll(sse.status, sse.events, sse.terminated).yielded

\* C30: the chunks yielded depend only on the text received, not on how the
\* transport splits it (a split inside a line and a last event not ended by a
\* newline included), and no received data event is lost.
C30_SplitIndependentNothingLost ==
  Stopped /\ sse.status = 200 =>
    /\ sse.yielded = StreamAll(sse.status, sse.events, sse.terminated).yielded
    /\ sse.yielded = AudioChunks(sse.events)

-----------------------------------------------------------------------------
(* The debate turns *)

\* the types of the events a stream has emitted, in order
Types(s) == [ k \in 1..Len(s.events) |-> s.events[k].type ]

Emitted(s, type) == \E k \in 1..Len(s.events) : s.events[k].type = type

\* C22: every /turn stream emits 'thinking' first, and then either one
\* 'error' event after which it ends, or one 'text' event followed by one
\* 'done' event; the DebateTurnRow is committed before the 'text' event is
\* emitted, and no row is written on the 'error' path.
C22_TurnStreamShape ==
  /\ \A i \in 1..Len(debate.streams) :
       LET s == debate.streams[i] IN
       /\ \/ IsPrefix(Types(s), << "thinking", "error" >>)
          \/ IsPrefix(Types(s), << "thinking", "text", "done" >>)
       /\ s.pc = "closed" =>
            Types(s) \in { << "thinking", "error" >>, << "thinking", "text", "done" >> }
       /\ Emitted(s, "text") =>
            /\ s.row \in 1..Len(debate.turns)
            /\ debate.turns[s.row] = DebateTurnRow(s)
       /\ Emitted(s, "error") => s.row = 0
  /\ Len(debate.turns) = Cardinality({ i \in 1..Len(debate.streams) : debate.streams[i].row # 0 })

\* one stream ended with text and done, another with an error
C22_Witness ==
  \E i, j \in 1..Len(debate.streams) :
    /\ debate.streams[i].pc = "closed" /\ Emitted(debate.streams[i], "done")
    /\ debate.streams[j].pc = "closed" /\ Emitted(debate.streams[j], "error")

Odd(n) == n % 2 = 1

Other(agent) == IF agent = "a" THEN "b" ELSE "a"

\* C23: for every turn_number in 1..num_turns the speaking agent is 'a' when
\* turn_number is odd and 'b' when it is even, next_agent is the other agent
\* when turn_number < num_turns, and next_agent is None exactly when
\* turn_number = num_turns (is_final).
C23_AgentsAlternate ==
  \A i \in 1..Len(debate.streams) :
    LET s == debate.streams[i]
        num_turns == get_session(s.session_id).num_turns
    IN /\ s.turn_number \in 1..num_turns
       /\ s.agent_key = (IF Odd(s.turn_number) THEN "a" ELSE "b")
       /\ s.turn_number < num_turns => s.next_agent = Other(s.agent_key)
       /\ (s.next_agent = None) <=> (s.turn_number = num_turns)
       /\ s.is_final <=> (s.turn_number = num_turns)
       /\ \A k \in 1..Len(s.events) :
            s.events[k].type = "text" =>
              /\ s.events[k].agent = s.agent_key
              /\ s.events[k].next_agent = s.next_agent
              /\ s.events[k].is_final = s.is_final

\* the text events of the last turn and of an earlier odd turn of a session
\* of four turns
C23_Witness ==
  \E i, j \in 1..Len(debate.streams) :
    /\ get_session(debate.streams[i].session_id).num_turns = 4
    /\ debate.streams[i].turn_number = 4 /\ Emitted(debate.streams[i], "text")
    /\ debate.streams[j].turn_number = 3 /\ Emitted(debate.streams[j], "text")

\* the request (session_id, turn_number) is one the handler has to reject
BadTurnRequest(session_id, turn_number) ==
  \/ \A s \in debate.sessions : s.id # session_id
  \/ turn_number < 1
  \/ turn_number > get_session(session_id).num_turns

\* C24: a /turn request whose turn_number is < 1 or > session.num_turns, or
\* whose session does not exist, is rejected (400 / 404) before any LLM call
\* is made and leaves the stored turns unchanged.
C24_BadTurnRejected ==
  /\ [](\A i \in 1..Len(debate.streams) :
          ~BadTurnRequest(debate.streams[i].session_id, debate.streams[i].turn_number))
  /\ [][ Len(debate'.rejected) > Len(debate.rejected)
         /\ debate'.rejected[Len(debate'.rejected)].path = "/turn"
         => /\ debate'.rejected[Len(debate'.rejected)].status \in { 400, 404 }
            /\ debate'.turns = debate.turns
            /\ debate'.streams = debate.streams
            /\ debate'.llm_calls = debate.llm_calls ]_vars

\* a turn number beyond num_turns was answered 400 when turns were stored
C24_Witness ==
  /\ debate.turns # << >>
  /\ \E k \in 1..Len(debate.rejected) :
       /\ debate.rejected[k].status = 400
       /\ debate.rejected[k].turn_number > get_session(debate.rejected[k].session_id).num_turns

\* C25: after any sequence and any interleaving of /turn requests, the stored
\* DebateTurnRows of a session have pairwise distinct turn_numbers, and turn k
\* is only stored when turns 1..k-1 are stored already.
C25_TurnsDistinctAndInOrder ==
  \A i \in 1..Len(debate.turns) :
    /\ \A j \in 1..Len(debate.turns) :
         i # j /\ debate.turns[i].session_id = debate.turns[j].session_id
           => debate.turns[i].turn_number # debate.turns[j].turn_number
    /\ \A k \in 1..(debate.turns[i].turn_number - 1) :
         \E j \in 1..(i - 1) :
           /\ debate.turns[j].session_id = debate.turns[i].session_id
           /\ debate.turns[j].turn_number = k

\* the first half of C25 alone
TurnsDistinct ==
  \A i, j \in 1..Len(debate.turns) :
    i # j /\ debate.turns[i].session_id = debate.turns[j].session_id
      => debate.turns[i].turn_number # debate.turns[j].turn_number

-----------------------------------------------------------------------------
(* The chat rows *)

RowsOf(conv_id, role) ==
  Len(SelectSeq(chatdb.rows, LAMBDA r : r.conversation_id = conv_id /\ r.role = role))

\* C26: after any sequence of chat requests, successful or failing, every
\* conversation holds as many user rows as assistant rows: the user message
\* and its reply are stored in one commit after a successful inference, and
\* a request whose inference fails stores neither.
C26_UserAndAssistantRowsPaired ==
  /\ \A c \in chatdb.conversations : RowsOf(c.id, "user") = RowsOf(c.id, "assistant")
  /\ \A i \in 1..Len(chatdb.rows) :
       \E c \in chatdb.conversations : c.id = chatdb.rows[i].conversation_id
  /\ \A i \in 1..Len(chatdb.served) :
       LET e == chatdb.served[i] IN
       /\ e.status = 200 => Len(e.after.rows) = Len(e.before.rows) + 2
       /\ e.status # 200 => e.after.rows = e.before.rows

\* a conversation with two exchanges stored, after a request that failed
C26_Witness ==
  /\ \E c \in chatdb.conversations : RowsOf(c.id, "user") = 2
  /\ \E i \in 1..Len(chatdb.served) : chatdb.served[i].status = 502

\* C27: a chat request that ends in an error response (400 for an empty or
\* too long message, 502 when all LLM providers fail) leaves the persistent
\* state unchanged: no ConversationRow and no MessageRow is added or modified.
C27_ErrorLeavesTablesUnchanged ==
  \A i \in 1..Len(chatdb.served) :
    chatdb.served[i].status \in { 400, 502 }
      => chatdb.served[i].after = chatdb.served[i].before

\* the rejected messages leave the tables unchanged
InvalidLeavesTablesUnchanged ==
  \A i \in 1..Len(chatdb.served) :
    chatdb.served[i].status = 400 => chatdb.served[i].after = chatdb.served[i].before

-----------------------------------------------------------------------------
(* The lazy accessors *)

\* C28: under any interleaving of concurrent first requests, each lazy
\* accessor (_get_bedrock, _get_minimax, _get_tts) constructs at most one
\* service instance per module for the process lifetime, and every caller of
\* the accessor receives that same instance.
C28_OneInstancePerAccessor ==
  \A a \in Accessors :
    /\ lazy.built[a] <= 1
    /\ \A r1, r2 \in lazy.returned :
         r1[1] = a /\ r2[1] = a /\ r1[2] # "HTTPException 503" /\ r2[2] # "HTTPException 503"
           => r1[2] = r2[2]

=============================================================================
